---- MODULE Spec2Model ----
(***************************************************************************)
(* Model of @hiprax/logger's request middleware (request-middleware.ts):   *)
(* the per-request finalize latch of createRequestLogger and the pure      *)
(* helpers determineLevel, redactValue and serializeBody.                  *)
(*                                                                         *)
(* JavaScript values are tagged records.  A text (a JS string) is a        *)
(* sequence of one-character strings, so that length, slice and            *)
(* concatenation are computed and not assumed.  Composite values (arrays   *)
(* and plain objects) live in `heap` and are referred to by identity, so   *)
(* that a body can be cyclic or share a composite between two positions.   *)
(***************************************************************************)
EXTENDS Integers, Sequences, FiniteSets, TLC

VARIABLES
  heap,        \* id -> composite: the object graph request bodies live in
  options,     \* the RequestLoggerOptions the middleware was created with
  phase,       \* per request: "new", "skipped" or "observed"
  reqBody,     \* per request: req.body
  statusCode,  \* per request: res.statusCode (Undefined when absent)
  chainCodes,  \* the status codes the handler chain of this run may set
  listeners,   \* per request: the events of res that still have a handler
  handled,     \* per request: finalize's latch
  started,     \* per request: TRUE once `start` was read from the clock
  skipCalls,   \* per request: number of evaluations of the skip predicate
  nextCalls,   \* per request: number of calls of next()
  levelCalls,  \* per request: the arguments the level function was called with
  logCalls,    \* per request: the payloads logger.log was called with
  thrown,      \* per request: the steps of finalize an exception left it at
  signals,     \* per request: which signal res emitted first since the
               \* middleware ran, and whether another one followed it
  call,        \* direct call of an internal helper: its arguments
  ret          \* direct call of an internal helper: its outcome

VARIABLES
  baseLogger,     \* per logger: what each member of the winston logger is
  warnedMethods,  \* per logger: the Set of names already warned about
  warnings,       \* per logger: unknown-method warnings emitted so far
  unknownCalled,  \* per logger: the unknown names called so far
  last,           \* the last operation on a logger proxy and its effects
  loggerOptions,  \* the LoggerOptions of a createLogger call
  made,           \* the outcome of that call: context, transports, error
  dirs,           \* the directories ensureDirectory was called for
  rendered        \* the records formatMessage has rendered

VARIABLES
  env,                   \* process.env: the value of each variable, if set
  request,               \* per request: req.method, req.originalUrl,
                         \* req.url and req.headers["content-length"]
  resContentLength,      \* per request: res.getHeader("content-length")
  initialContentLength,  \* per request: the middleware's local of that name
  steps                  \* per request: the steps the middleware and
                         \* finalize have taken, in order

entryVars == <<env, request, resContentLength, initialContentLength, steps>>
requestVars == <<heap, options, phase, reqBody, statusCode, chainCodes,
                 listeners, handled, started, skipCalls, nextCalls,
                 levelCalls, logCalls, thrown, signals, call, ret, entryVars>>
proxyVars == <<baseLogger, warnedMethods, warnings, unknownCalled, last>>
createVars == <<loggerOptions, made, dirs, rendered>>
loggerVars == <<proxyVars, createVars>>

vars == <<requestVars, loggerVars>>

(***************************************************************************)
(* Bounds of the model.                                                    *)
(***************************************************************************)
NumObjs == 2        \* composites in a generated body graph
MaxBodyLen == 4     \* largest maxBodyLength tried by a direct call
NumRequests == 2    \* requests in flight on one middleware instance
MaxHeaders == 2     \* headers in a header map, names in an allow list
MaxZones == 2       \* entries of an extraTimezones list
MaxRecords == 2     \* records logged through one created logger

(***************************************************************************)
(* Values.                                                                 *)
(***************************************************************************)
Undefined == [t |-> "undef"]
Null == [t |-> "null"]
Str(s) == [t |-> "str", s |-> s]
Num(n) == [t |-> "num", n |-> n]
Big(n) == [t |-> "big", n |-> n]
\* a function-valued property: calling it throws, or returns the text r
FnThrow == [t |-> "fn", does |-> "throw", r |-> <<>>]
FnRet(r) == [t |-> "fn", does |-> "return", r |-> r]
Ref(i) == [t |-> "ref", id |-> i]
Arr(items) == [t |-> "arr", items |-> items]
Obj(entries) == [t |-> "obj", entries |-> entries]
Entry(k, v) == [k |-> k, v |-> v]

RedactedText == <<"[", "R", "E", "D", "A", "C", "T", "E", "D", "]">>
CircularText == <<"[", "C", "i", "r", "c", "u", "l", "a", "r", "]">>
ObjectObjectText ==
  <<"[", "o", "b", "j", "e", "c", "t", " ", "O", "b", "j", "e", "c", "t", "]">>
NullText == <<"n", "u", "l", "l">>
UndefinedText == <<"u", "n", "d", "e", "f", "i", "n", "e", "d">>
FunctionText == <<"(", ")", "=", ">", "{", "}">>
ToJSONKey == <<"t", "o", "J", "S", "O", "N">>
ToStringKey == <<"t", "o", "S", "t", "r", "i", "n", "g">>
\* the one code unit U+2026
Ellipsis == "..."

SeqToSet(s) == {s[i] : i \in DOMAIN s}

\* String.prototype.toLowerCase, on the alphabet the model uses
LowerChar(c) ==
  CASE c = "A" -> "a"
    [] c = "Q" -> "q"
    [] c = "P" -> "p"
    [] c = "J" -> "j"
    [] c = "S" -> "s"
    [] c = "O" -> "o"
    [] c = "N" -> "n"
    [] c = "R" -> "r"
    [] c = "E" -> "e"
    [] c = "D" -> "d"
    [] c = "C" -> "c"
    [] c = "T" -> "t"
    [] OTHER -> c
toLowerCase(s) == [i \in DOMAIN s |-> LowerChar(s[i])]

DigitChar(d) ==
  CASE d = 0 -> "0" [] d = 1 -> "1" [] d = 2 -> "2" [] d = 3 -> "3"
    [] d = 4 -> "4" [] d = 5 -> "5" [] d = 6 -> "6" [] d = 7 -> "7"
    [] d = 8 -> "8" [] d = 9 -> "9"
CharDigit(c) == CHOOSE d \in 0..9 : DigitChar(d) = c
IsDigit(c) == \E d \in 0..9 : DigitChar(d) = c
RECURSIVE Digits(_)
\* the decimal text of a non-negative integer
Digits(n) == IF n < 10 THEN <<DigitChar(n)>>
             ELSE Digits(n \div 10) \o <<DigitChar(n % 10)>>

(***************************************************************************)
(* redactValue (request-middleware.ts 23-49).  `seen` is the WeakSet that  *)
(* one serializeBody call threads through the whole walk, so the result    *)
(* carries the set as the walk left it.                                    *)
(***************************************************************************)
RECURSIVE redactValue(_, _, _)
RECURSIVE redactItems(_, _, _)
RECURSIVE redactEntries(_, _, _)

\* value.map((item) => redactValue(item, maskKeys, seen))
redactItems(items, maskKeys, seen) ==
  IF items = <<>> THEN [outs |-> <<>>, seen |-> seen]
  ELSE LET h == redactValue(Head(items), maskKeys, seen)
           t == redactItems(Tail(items), maskKeys, h.seen)
       IN [outs |-> <<h.out>> \o t.outs, seen |-> t.seen]

\* the reduce comparing the key as written, not lower-cased
redactEntriesCaseSensitive(entries, maskKeys, seen) ==
  IF entries = <<>> THEN [outs |-> <<>>, seen |-> seen]
  ELSE LET e == Head(entries)
           h == IF e.k \in maskKeys
                THEN [out |-> Str(RedactedText), seen |-> seen]
                ELSE redactValue(e.v, maskKeys, seen)
           t == redactEntries(Tail(entries), maskKeys, h.seen)
       IN [outs |-> <<Entry(e.k, h.out)>> \o t.outs, seen |-> t.seen]

\* Object.entries(value).reduce((acc, [key, val]) => ..., {})
redactEntries(entries, maskKeys, seen) ==
  IF entries = <<>> THEN [outs |-> <<>>, seen |-> seen]
  ELSE LET e == Head(entries)
           h == IF toLowerCase(e.k) \in maskKeys
                THEN [out |-> Str(RedactedText), seen |-> seen]
                ELSE redactValue(e.v, maskKeys, seen)
           t == redactEntries(Tail(entries), maskKeys, h.seen)
       IN [outs |-> <<Entry(e.k, h.out)>> \o t.outs, seen |-> t.seen]

\* redactValue without the seen.has(value) test: on a cycle the recursion
\* has no end, and the call stack overflows (RangeError).  Here `seen`
\* counts the composites entered, to cut the unfolding off.
redactValueUnguarded(value, maskKeys, seen) ==
  IF value.t # "ref" THEN [out |-> value, seen |-> seen]
  ELSE IF Cardinality(seen) >= 8
  THEN [out |-> Str(<<"RangeError">>), seen |-> seen]
  ELSE LET o == heap[value.id]
           s1 == seen \cup {<<Cardinality(seen), value.id>>}
       IN IF o.t = "arr"
          THEN LET r == redactItems(o.items, maskKeys, s1)
               IN [out |-> Arr(r.outs), seen |-> r.seen]
          ELSE LET r == redactEntries(o.entries, maskKeys, s1)
               IN [out |-> Obj(r.outs), seen |-> r.seen]

\* redactValue that forgets a composite once it has walked it: only a
\* composite the walk is inside of is cut
redactValueAncestorsOnly(value, maskKeys, seen) ==
  IF value.t # "ref" THEN [out |-> value, seen |-> seen]
  ELSE IF value.id \in seen THEN [out |-> Str(CircularText), seen |-> seen]
  ELSE LET o == heap[value.id]
           s1 == seen \cup {value.id}
       IN IF o.t = "arr"
          THEN LET r == redactItems(o.items, maskKeys, s1)
               IN [out |-> Arr(r.outs), seen |-> seen]
          ELSE LET r == redactEntries(o.entries, maskKeys, s1)
               IN [out |-> Obj(r.outs), seen |-> seen]

redactValue(value, maskKeys, seen) ==
  IF value.t # "ref" THEN [out |-> value, seen |-> seen]
  ELSE IF value.id \in seen THEN [out |-> Str(CircularText), seen |-> seen]
  ELSE LET o == heap[value.id]
           s1 == seen \cup {value.id}
       IN IF o.t = "arr"
          THEN LET r == redactItems(o.items, maskKeys, s1)
               IN [out |-> Arr(r.outs), seen |-> r.seen]
          ELSE LET r == redactEntries(o.entries, maskKeys, s1)
               IN [out |-> Obj(r.outs), seen |-> r.seen]

(***************************************************************************)
(* JSON.stringify, JSON.parse and String() on a redacted value (a tree:    *)
(* redactValue copies every composite it walks).  An outcome is a record:  *)
(* ok = FALSE is a thrown exception, def = FALSE is the value undefined.   *)
(***************************************************************************)
Quote(s) == <<"\"">> \o s \o <<"\"">>

RECURSIVE Join(_, _)
\* texts joined by the separator sep
Join(texts, sep) ==
  IF texts = <<>> THEN <<>>
  ELSE IF Len(texts) = 1 THEN texts[1]
  ELSE texts[1] \o sep \o Join(Tail(texts), sep)

\* the own property `key` of a plain object, or Undefined
OwnProperty(obj, key) ==
  IF \E i \in DOMAIN obj.entries : obj.entries[i].k = key
  THEN obj.entries[CHOOSE i \in DOMAIN obj.entries : obj.entries[i].k = key].v
  ELSE Undefined

RECURSIVE JSONstringify(_)
JSONstringify(v) ==
  CASE v.t = "str" -> [ok |-> TRUE, def |-> TRUE, text |-> Quote(v.s)]
    [] v.t = "num" -> [ok |-> TRUE, def |-> TRUE, text |-> Digits(v.n)]
    [] v.t = "null" -> [ok |-> TRUE, def |-> TRUE, text |-> NullText]
    \* TypeError: Do not know how to serialize a BigInt
    [] v.t = "big" -> [ok |-> FALSE, def |-> FALSE, text |-> <<>>]
    [] v.t \in {"undef", "fn"} -> [ok |-> TRUE, def |-> FALSE, text |-> <<>>]
    [] v.t = "arr" ->
         LET parts == [i \in DOMAIN v.items |-> JSONstringify(v.items[i])]
         IN IF \E i \in DOMAIN parts : ~parts[i].ok
            THEN [ok |-> FALSE, def |-> FALSE, text |-> <<>>]
            ELSE [ok |-> TRUE, def |-> TRUE,
                  text |-> <<"[">> \o
                           Join([i \in DOMAIN parts |->
                                   IF parts[i].def THEN parts[i].text
                                   ELSE NullText], <<",">>)
                           \o <<"]">>]
    [] v.t = "obj" ->
         LET toJSON == OwnProperty(v, ToJSONKey)
         IN IF toJSON.t = "fn"
            THEN IF toJSON.does = "throw"
                 THEN [ok |-> FALSE, def |-> FALSE, text |-> <<>>]
                 ELSE JSONstringify(Str(toJSON.r))
            ELSE LET parts == [i \in DOMAIN v.entries |->
                                 JSONstringify(v.entries[i].v)]
                     kept == SelectSeq([i \in DOMAIN parts |-> i],
                                       LAMBDA i : parts[i].def)
                 IN IF \E i \in DOMAIN parts : ~parts[i].ok
                    THEN [ok |-> FALSE, def |-> FALSE, text |-> <<>>]
                    ELSE [ok |-> TRUE, def |-> TRUE,
                          text |-> <<"{">> \o
                                   Join([j \in DOMAIN kept |->
                                           Quote(v.entries[kept[j]].k)
                                           \o <<":">> \o parts[kept[j]].text],
                                        <<",">>)
                                   \o <<"}">>]

\* JSON.parse of a text JSON.stringify produced: the value read at position
\* i and the position after it
RECURSIVE parseValue(_, _)
RECURSIVE parseItems(_, _, _)
RECURSIVE parseEntries(_, _, _)
RECURSIVE parseDigits(_, _, _)

\* the position of the first quote at or after i
NextQuote(text, i) == CHOOSE j \in i..Len(text) :
                        text[j] = "\"" /\ \A k \in i..(j - 1) : text[k] # "\""

parseDigits(text, i, acc) ==
  IF i <= Len(text) /\ IsDigit(text[i])
  THEN parseDigits(text, i + 1, acc * 10 + CharDigit(text[i]))
  ELSE [v |-> Num(acc), next |-> i]

parseItems(text, i, acc) ==
  LET item == parseValue(text, i)
  IN IF text[item.next] = ","
     THEN parseItems(text, item.next + 1, Append(acc, item.v))
     ELSE [v |-> Arr(Append(acc, item.v)), next |-> item.next + 1]

parseEntries(text, i, acc) ==
  LET close == NextQuote(text, i + 1)
      key == SubSeq(text, i + 1, close - 1)
      val == parseValue(text, close + 2)
  IN IF text[val.next] = ","
     THEN parseEntries(text, val.next + 1, Append(acc, Entry(key, val.v)))
     ELSE [v |-> Obj(Append(acc, Entry(key, val.v))), next |-> val.next + 1]

parseValue(text, i) ==
  CASE text[i] = "\"" ->
         LET close == NextQuote(text, i + 1)
         IN [v |-> Str(SubSeq(text, i + 1, close - 1)), next |-> close + 1]
    [] text[i] = "n" -> [v |-> Null, next |-> i + 4]
    [] text[i] = "[" ->
         IF text[i + 1] = "]" THEN [v |-> Arr(<<>>), next |-> i + 2]
         ELSE parseItems(text, i + 1, <<>>)
    [] text[i] = "{" ->
         IF text[i + 1] = "}" THEN [v |-> Obj(<<>>), next |-> i + 2]
         ELSE parseEntries(text, i + 1, <<>>)
    [] OTHER -> parseDigits(text, i, 0)

JSONparse(text) == parseValue(text, 1).v

\* String(value): the default string coercion
RECURSIVE StringOf(_)
StringOf(v) ==
  CASE v.t = "str" -> [ok |-> TRUE, text |-> v.s]
    [] v.t \in {"num", "big"} -> [ok |-> TRUE, text |-> Digits(v.n)]
    [] v.t = "null" -> [ok |-> TRUE, text |-> NullText]
    [] v.t = "undef" -> [ok |-> TRUE, text |-> UndefinedText]
    [] v.t = "fn" -> [ok |-> TRUE, text |-> FunctionText]
    \* Array.prototype.join: null and undefined elements are empty
    [] v.t = "arr" ->
         LET parts == [i \in DOMAIN v.items |->
                         IF v.items[i].t \in {"null", "undef"}
                         THEN [ok |-> TRUE, text |-> <<>>]
                         ELSE StringOf(v.items[i])]
         IN IF \E i \in DOMAIN parts : ~parts[i].ok
            THEN [ok |-> FALSE, text |-> <<>>]
            ELSE [ok |-> TRUE,
                  text |-> Join([i \in DOMAIN parts |-> parts[i].text],
                                <<",">>)]
    \* OrdinaryToPrimitive: an own toString shadows Object.prototype's; one
    \* that is not callable leaves valueOf, which returns the object itself,
    \* and the coercion ends in a TypeError
    [] v.t = "obj" ->
         LET toString == OwnProperty(v, ToStringKey)
         IN IF ~\E i \in DOMAIN v.entries : v.entries[i].k = ToStringKey
            THEN [ok |-> TRUE, text |-> ObjectObjectText]
            ELSE IF toString.t = "fn" /\ toString.does = "return"
            THEN [ok |-> TRUE, text |-> toString.r]
            ELSE [ok |-> FALSE, text |-> <<>>]

(***************************************************************************)
(* serializeBody (request-middleware.ts 51-79).  The outcome is            *)
(* [threw, val]: threw = TRUE when an exception leaves the function.       *)
(***************************************************************************)
Return(v) == [threw |-> FALSE, val |-> v]
Throws == [threw |-> TRUE, val |-> Undefined]

\* the slice one character short
TruncatedShort(text, maxLength) ==
  SubSeq(text, 1, IF maxLength - 1 < Len(text) THEN maxLength - 1
                  ELSE Len(text))
  \o <<Ellipsis>>

\* `${text.slice(0, maxLength)}…`
Truncated(text, maxLength) ==
  SubSeq(text, 1, IF maxLength < Len(text) THEN maxLength ELSE Len(text))
  \o <<Ellipsis>>

\* serializeBody with one set of visited composites for all its calls:
\* the bodies of the requests finalized so far are in it
serializeBodySharedSeen(body, maskKeys, maxLength) ==
  IF body.t \in {"undef", "null"} THEN Return(Undefined)
  ELSE
    LET masked == redactValue(body,
                              {toLowerCase(k) : k \in SeqToSet(maskKeys)},
                              {reqBody[q].id :
                                 q \in {p \in DOMAIN reqBody :
                                          handled[p] /\ reqBody[p].t = "ref"}}
                             ).out
        serialized == IF masked.t = "str"
                      THEN [ok |-> TRUE, def |-> TRUE, text |-> masked.s]
                      ELSE JSONstringify(masked)
    IN IF serialized.ok /\ serialized.def
       THEN IF Len(serialized.text) > maxLength
            THEN Return(Str(Truncated(serialized.text, maxLength)))
            ELSE Return(IF masked.t = "str" THEN masked
                        ELSE JSONparse(serialized.text))
       ELSE LET fallback == StringOf(masked)
            IN IF ~fallback.ok THEN Throws
               ELSE IF Len(fallback.text) > maxLength
               THEN Return(Str(Truncated(fallback.text, maxLength)))
               ELSE Return(Str(fallback.text))

serializeBody(body, maskKeys, maxLength) ==
  IF body.t \in {"undef", "null"} THEN Return(Undefined)
  ELSE
    LET masked == redactValue(body,
                              {toLowerCase(k) : k \in SeqToSet(maskKeys)},
                              {}).out
        serialized == IF masked.t = "str"
                      THEN [ok |-> TRUE, def |-> TRUE, text |-> masked.s]
                      ELSE JSONstringify(masked)
    IN IF serialized.ok /\ serialized.def
       THEN IF Len(serialized.text) > maxLength
            THEN Return(Str(Truncated(serialized.text, maxLength)))
            ELSE Return(IF masked.t = "str" THEN masked
                        ELSE JSONparse(serialized.text))
       ELSE \* catch: JSON.stringify threw, or returned undefined and
            \* serialized.length threw
            LET fallback == StringOf(masked)
            IN IF ~fallback.ok THEN Throws
               ELSE IF Len(fallback.text) > maxLength
               THEN Return(Str(Truncated(fallback.text, maxLength)))
               ELSE Return(Str(fallback.text))

(***************************************************************************)
(* normalizeHeaders (request-middleware.ts 81-124).  A header map and the  *)
(* records the function builds are plain objects: sequences of entries in  *)
(* insertion order, with Object.prototype behind them.                     *)
(***************************************************************************)
ProtoKey == <<"_", "_", "p", "r", "o", "t", "o", "_", "_">>
ConstructorKey == <<"c", "o", "n", "s", "t", "r", "u", "c", "t", "o", "r">>
\* the members a plain object inherits (those the model names)
ObjectPrototypeKeys == {ConstructorKey, ToStringKey, ProtoKey}

HasOwn(entries, key) == \E i \in DOMAIN entries : entries[i].k = key

\* record[key]: the own property, else the inherited one, else undefined
GetProperty(entries, key) ==
  IF HasOwn(entries, key)
  THEN entries[CHOOSE i \in DOMAIN entries : entries[i].k = key].v
  ELSE IF key \in ObjectPrototypeKeys THEN FnRet(key)
  ELSE Undefined

\* record[key] = val: an own property is replaced in place, a new one comes
\* last, and "__proto__" reaches the inherited setter, which adds none
SetProperty(entries, key, val) ==
  IF HasOwn(entries, key)
  THEN [i \in DOMAIN entries |->
          IF entries[i].k = key THEN Entry(key, val) ELSE entries[i]]
  ELSE IF key = ProtoKey THEN entries
  ELSE Append(entries, Entry(key, val))

\* ensureReturn with an empty record never returned
ensureReturnNeverEmpty(record, allowEmpty) ==
  IF Len(record) > 0 THEN Obj(record) ELSE Undefined

\* ensureReturn (90-95)
ensureReturn(record, allowEmpty) ==
  IF Len(record) > 0 THEN Obj(record)
  ELSE IF allowEmpty THEN Obj(<<>>) ELSE Undefined

RECURSIVE lowerCaseKeys(_, _)
\* Object.entries(headers).reduce(... acc[key.toLowerCase()] = val ..., {})
lowerCaseKeys(entries, acc) ==
  IF entries = <<>> THEN acc
  ELSE lowerCaseKeys(Tail(entries),
                     SetProperty(acc, toLowerCase(Head(entries).k),
                                 Head(entries).v))

RECURSIVE filterHeaders(_, _, _)
\* allowList.reduce(... if (normalized[normalizedKey] !== undefined) ..., {})
filterHeaders(allowList, normalized, acc) ==
  IF allowList = <<>> THEN acc
  ELSE LET normalizedKey == toLowerCase(Head(allowList))
       IN filterHeaders(Tail(allowList), normalized,
                        IF GetProperty(normalized, normalizedKey) # Undefined
                        THEN SetProperty(acc, normalizedKey,
                                         GetProperty(normalized,
                                                     normalizedKey))
                        ELSE acc)

\* `include` is undefined, a boolean or the allow list; `headers` is
\* undefined or a plain object
Bool(b) == [t |-> "bool", b |-> b]
AllowList(keys) == [t |-> "list", keys |-> keys]

normalizeHeaders(headers, include) ==
  IF include = Undefined \/ include = Bool(FALSE)
  THEN Undefined
  ELSE LET allowEmpty == (include = Bool(TRUE))
       IN IF headers = Undefined
          THEN IF allowEmpty THEN Obj(<<>>) ELSE Undefined
          ELSE LET normalized == lowerCaseKeys(headers.entries, <<>>)
               IN IF include = Bool(TRUE)
                  THEN ensureReturn(normalized, allowEmpty)
                  ELSE ensureReturn(filterHeaders(include.keys, normalized,
                                                  <<>>),
                                    allowEmpty)

(***************************************************************************)
(* createRequestLogger (request-middleware.ts 145-257).                    *)
(***************************************************************************)
DEFAULT_BODY_LIMIT == 3000

\* determineLevel with the comparisons strict
determineLevelStrict(status) ==
  IF status > 500 THEN "error"
  ELSE IF status > 400 THEN "warn"
  ELSE "info"

determineLevel(status) ==
  IF status >= 500 THEN "error"
  ELSE IF status >= 400 THEN "warn"
  ELSE "info"

\* The callbacks and values a caller configures.  A level function, an
\* enrich function, a message builder and the sink are the caller's code:
\* each either returns or throws.
FixedLevel == "verbose"
LevelFn(status) == IF status >= 300 THEN "debug" ELSE "info"
EnrichContext == Obj(<<Entry(<<"c">>, Str(<<"x">>))>>)

\* includeHttpContext and loggingMode are options the README documents
\* (141-143); a caller passes them, and the destructuring of the options
\* (148-162) takes neither.
AlwaysMode == [mode |-> "always"]
DefaultOptions ==
  [level |-> "none", skip |-> TRUE, enrich |-> "none",
   messageBuilder |-> "default", sink |-> "ok",
   includeRequestBody |-> FALSE, maxBodyLength |-> DEFAULT_BODY_LIMIT,
   maskBodyKeys |-> <<>>,
   includeHttpContext |-> FALSE, loggingMode |-> AlwaysMode]

Requests == 1..NumRequests

\* the level option read as a fixed level only: a function is not called
resolveLevelFixedOnly(level, status) ==
  IF level = "fixed" THEN FixedLevel ELSE determineLevel(status)

\* level(statusCode) / level ?? determineLevel(statusCode)
resolveLevel(level, status) ==
  IF level = "fn" THEN LevelFn(status)
  ELSE IF level = "fixed" THEN FixedLevel
  ELSE determineLevel(status)

\* res.statusCode ?? 500
resolveStatusUnset(r) ==
  IF statusCode[r].t = "undef" THEN 500 ELSE statusCode[r].n

\* res.statusCode ?? 0
resolveStatus(r) == IF statusCode[r].t = "undef" THEN 0 ELSE statusCode[r].n

\* a ?? b
Coalesce(a, b) == IF a.t \in {"undef", "null"} THEN b ELSE a

\* Number(value) for the values a content-length header holds: a number
\* is itself, "" is 0, a text of digits is its value, any other text NaN
NaN == [t |-> "nan"]
RECURSIVE digitsValue(_, _)
digitsValue(text, acc) ==
  IF text = <<>> THEN acc
  ELSE digitsValue(Tail(text), 10 * acc + CharDigit(Head(text)))
NumberOf(value) ==
  IF value.t = "num" THEN value
  ELSE IF \A i \in DOMAIN value.s : IsDigit(value.s[i])
  THEN Num(digitsValue(value.s, 0))
  ELSE NaN

\* toNumber (126-132)
toNumber(value) ==
  IF value.t \in {"undef", "null"} THEN Undefined
  ELSE LET numeric == NumberOf(value)
       IN IF numeric.t = "num" THEN numeric ELSE Undefined

\* the entry's contentLength with the two sources the other way round
entryContentLengthRequestFirst(r) ==
  Coalesce(initialContentLength[r], toNumber(resContentLength[r]))

\* toNumber(res.getHeader("content-length")) ?? initialContentLength
\* (199-200)
entryContentLength(r) ==
  Coalesce(toNumber(resContentLength[r]), initialContentLength[r])

GetText == <<"G", "E", "T">>
\* req.method ?? "GET" (195)
entryMethod(r) == Coalesce(request[r].method, Str(GetText))
\* req.originalUrl ?? req.url ?? "" (196)
entryUrl(r) ==
  Coalesce(request[r].originalUrl, Coalesce(request[r].url, Str(<<>>)))

\* The steps of the entry-building part of finalize in the order of
\* the code, with the message builder called before enrich
entryStepsBuilderFirst(threwAt) ==
  LET all == <<"status", "level", "entry">>
             \o (IF options.includeRequestBody THEN <<"serializeBody">>
                 ELSE <<>>)
             \o <<"messageBuilder">>
             \o (IF options.enrich # "none" THEN <<"enrich">> ELSE <<>>)
             \o <<"log">>
      upTo == IF threwAt = <<>> THEN Len(all)
              ELSE CHOOSE i \in DOMAIN all : all[i] = threwAt[1]
  IN SubSeq(all, 1, upTo)

\* The steps of the entry-building part of finalize (184-246) in the order
\* of the code: the status (187), the level (188-191), the entry (193-216),
\* serializeBody if the body is included (218-224), enrich if configured
\* (235-238), the message builder (240), logger.log (242-246).  A step that
\* throws is the last one.
entrySteps(threwAt) ==
  LET all == <<"status", "level", "entry">>
             \o (IF options.includeRequestBody THEN <<"serializeBody">>
                 ELSE <<>>)
             \o (IF options.enrich # "none" THEN <<"enrich">> ELSE <<>>)
             \o <<"messageBuilder", "log">>
      upTo == IF threwAt = <<>> THEN Len(all)
              ELSE CHOOSE i \in DOMAIN all : all[i] = threwAt[1]
  IN SubSeq(all, 1, upTo)

\* The entry-building part of finalize(event) of request r (184-246), as its
\* effects: the argument the level function gets, the payload logger.log
\* gets, and the step an exception leaves finalize at.  The steps run in the
\* order of the code: the level function, serializeBody, enrich, the message
\* builder, logger.log.
emitEntry(r, event) ==
  LET status == resolveStatus(r)
      body == IF options.includeRequestBody
              THEN serializeBody(reqBody[r], options.maskBodyKeys,
                                 options.maxBodyLength)
              ELSE Return(Undefined)
      threwAt == IF options.level = "fnThrows" THEN <<"level">>
                 ELSE IF body.threw THEN <<"serializeBody">>
                 ELSE IF options.enrich = "throws" THEN <<"enrich">>
                 ELSE IF options.messageBuilder = "throws"
                 THEN <<"messageBuilder">>
                 ELSE IF options.sink = "throws" THEN <<"log">>
                 ELSE <<>>
      entry == [event |-> event,
                method |-> entryMethod(r),
                url |-> entryUrl(r),
                statusCode |-> status,
                contentLength |-> entryContentLength(r),
                requestBody |-> body.val,
                context |-> IF options.enrich = "returns"
                            THEN EnrichContext ELSE Undefined]
      payload == [level |-> resolveLevel(options.level, status),
                  message |-> [builder |-> options.messageBuilder,
                               entry |-> entry],
                  http |-> entry]
  IN [levelArgs |-> IF options.level \in {"fn", "fnThrows"}
                    THEN <<status>> ELSE <<>>,
      logged |-> IF threwAt \in {<<>>, <<"log">>} THEN <<payload>> ELSE <<>>,
      threw |-> threwAt,
      steps |-> entrySteps(threwAt)]

\* finalize returning at once: `if (handled) return`
Ignored(r) == [handled |-> handled[r], removed |-> {}, latched |-> <<>>,
               levelArgs |-> <<>>, logged |-> <<>>, threw |-> <<>>,
               steps |-> <<>>]

\* the steps of the latch: handled = true (179), the two removeListener
\* calls (181-182)
Latched == <<"handled", "removeListener">>

\* finalize that neither sets the latch nor removes a listener
finalizeUnlatched(r, event) ==
  [handled |-> handled[r], removed |-> {}, latched |-> <<>>]
  @@ emitEntry(r, event)

\* finalize that sets the latch but leaves the other listener registered
finalizeKeepsListeners(r, event) ==
  IF handled[r] THEN Ignored(r)
  ELSE [handled |-> TRUE, removed |-> {}, latched |-> <<"handled">>]
       @@ emitEntry(r, event)

\* finalize whose latch is one variable of the middleware, not of the request
finalizeSharedLatch(r, event) ==
  IF \E q \in Requests : handled[q]
  THEN [Ignored(r) EXCEPT !.handled = TRUE, !.removed = {"finish", "close"}]
  ELSE [handled |-> TRUE, removed |-> {"finish", "close"},
        latched |-> Latched]
       @@ emitEntry(r, event)

\* finalize that sets the latch and removes the listeners once the entry
\* was logged, not before
finalizeLatchesLast(r, event) ==
  IF handled[r] THEN Ignored(r)
  ELSE LET fx == emitEntry(r, event)
       IN IF fx.threw = <<>>
          THEN [handled |-> TRUE, removed |-> {"finish", "close"},
                latched |-> Latched] @@ fx
          ELSE [handled |-> FALSE, removed |-> {}, latched |-> <<>>] @@ fx

\* finalize(event) of request r (173-247): the latch, the removal of both
\* listeners, then the entry
finalize(r, event) ==
  IF handled[r] THEN Ignored(r)
  ELSE [handled |-> TRUE, removed |-> {"finish", "close"},
        latched |-> Latched]
       @@ emitEntry(r, event)

\* finishHandler and closeHandler (249-250)
handler(r, ev) == finalize(r, IF ev = "finish" THEN "completed" ELSE "aborted")

\* The middleware registering its listeners before it asks the skip
\* predicate
MiddlewareAttachesFirst(r) ==
  /\ phase[r] = "new"
  /\ \A q \in Requests : q < r => phase[q] # "new"
  /\ \E skipped \in (IF options.skip THEN BOOLEAN ELSE {FALSE}) :
       /\ skipCalls' = IF options.skip
                       THEN [skipCalls EXCEPT ![r] = @ + 1] ELSE skipCalls
       /\ nextCalls' = [nextCalls EXCEPT ![r] = @ + 1]
       /\ phase' = [phase EXCEPT ![r] = IF skipped THEN "skipped"
                                        ELSE "observed"]
       /\ started' = [started EXCEPT ![r] = TRUE]
       /\ handled' = [handled EXCEPT ![r] = FALSE]
       /\ listeners' = [listeners EXCEPT ![r] = {"finish", "close"}]
       /\ initialContentLength' =
            [initialContentLength EXCEPT
               ![r] = toNumber(request[r].contentLength)]
       /\ steps' = [steps EXCEPT ![r] =
                      <<"hrtime", "once", "once">>
                      \o (IF options.skip THEN <<"skip">> ELSE <<>>)
                      \o <<"next">>]
  /\ UNCHANGED <<heap, options, reqBody, statusCode, chainCodes, levelCalls,
                 logCalls, thrown, signals, call, ret>>
  /\ UNCHANGED <<env, request, resContentLength, loggerVars>>

\* the steps of the middleware call, with next() called before the
\* listeners are registered
middlewareStepsNextFirst(skipped) ==
  (IF options.skip THEN <<"skip">> ELSE <<>>)
  \o (IF skipped THEN <<"next">> ELSE <<"hrtime", "next", "once", "once">>)

\* the steps of the middleware call (165-255): the skip predicate if
\* there is one, and either next() at once, or the clock, the two
\* res.once calls and then next()
middlewareSteps(skipped) ==
  (IF options.skip THEN <<"skip">> ELSE <<>>)
  \o (IF skipped THEN <<"next">> ELSE <<"hrtime", "once", "once", "next">>)

\* The returned middleware, called for request r (164-256).  Requests are
\* numbered in the order the middleware is called for them.
Middleware(r) ==
  /\ phase[r] = "new"
  /\ \A q \in Requests : q < r => phase[q] # "new"
  /\ \E skipped \in (IF options.skip THEN BOOLEAN ELSE {FALSE}) :
       /\ skipCalls' = IF options.skip
                       THEN [skipCalls EXCEPT ![r] = @ + 1] ELSE skipCalls
       /\ nextCalls' = [nextCalls EXCEPT ![r] = @ + 1]
       /\ steps' = [steps EXCEPT ![r] = middlewareSteps(skipped)]
       /\ IF skipped
          THEN /\ phase' = [phase EXCEPT ![r] = "skipped"]
               /\ UNCHANGED <<started, handled, listeners,
                              initialContentLength>>
          ELSE /\ phase' = [phase EXCEPT ![r] = "observed"]
               /\ started' = [started EXCEPT ![r] = TRUE]
               /\ initialContentLength' =
                    [initialContentLength EXCEPT
                       ![r] = toNumber(request[r].contentLength)]
               /\ handled' = [handled EXCEPT ![r] = FALSE]
               /\ listeners' = [listeners EXCEPT ![r] = {"finish", "close"}]
  /\ UNCHANGED <<heap, options, reqBody, statusCode, chainCodes, levelCalls,
                 logCalls, thrown, signals, call, ret>>
  /\ UNCHANGED <<env, request, resContentLength, loggerVars>>

\* The handler chain sets res.statusCode before the response ends.
StatusCodes == {Undefined} \cup {Num(n) : n \in {399, 400, 499, 500}}
InitialStatus == Num(200)

SetStatus(r, s) ==
  /\ phase[r] = "observed"
  /\ signals[r].first = "none"
  /\ s \in chainCodes
  /\ s # statusCode[r]
  /\ statusCode' = [statusCode EXCEPT ![r] = s]
  /\ UNCHANGED <<heap, options, phase, reqBody, chainCodes, listeners, handled,
                 started,
                 skipCalls, nextCalls, levelCalls, logCalls, thrown, signals,
                 call, ret>>
  /\ UNCHANGED <<entryVars, loggerVars>>

\* res.emit(ev).  A handler registered with once() is removed before it runs;
\* an event without a handler does nothing.
Emit(r, ev) ==
  /\ phase[r] # "new"
  /\ signals' = [signals EXCEPT ![r] =
                   IF @.first = "none" THEN [first |-> ev, late |-> FALSE]
                   ELSE [first |-> @.first, late |-> TRUE]]
  /\ IF ev \in listeners[r]
     THEN LET fx == handler(r, ev)
          IN /\ handled' = [handled EXCEPT ![r] = fx.handled]
             /\ listeners' = [listeners EXCEPT ![r] = (@ \ {ev}) \ fx.removed]
             /\ levelCalls' = [levelCalls EXCEPT ![r] = @ \o fx.levelArgs]
             /\ logCalls' = [logCalls EXCEPT ![r] = @ \o fx.logged]
             /\ thrown' = [thrown EXCEPT ![r] = @ \o fx.threw]
             /\ steps' = [steps EXCEPT ![r] = @ \o fx.latched \o fx.steps]
     ELSE UNCHANGED <<handled, listeners, levelCalls, logCalls, thrown,
                      steps>>
  /\ UNCHANGED <<heap, options, phase, reqBody, statusCode, chainCodes,
                 started, skipCalls, nextCalls, call, ret>>
  /\ UNCHANGED <<env, request, resContentLength, initialContentLength,
                 loggerVars>>

\* The values a content-length header is given: absent, a text of digits,
\* a text that is no number, the empty text, a number (res.setHeader takes
\* one).
LengthValues ==
  {Undefined, Str(<<"1", "2">>), Str(<<"a", "b">>), Str(<<>>), Num(7)}

\* req.headers["content-length"] = v, after the middleware ran
SetRequestHeader(r, v) ==
  /\ phase[r] = "observed"
  /\ signals[r].first = "none"
  /\ v # request[r].contentLength
  /\ request' = [request EXCEPT ![r].contentLength = v]
  /\ UNCHANGED <<heap, options, phase, reqBody, statusCode, chainCodes,
                 listeners, handled, started, skipCalls, nextCalls,
                 levelCalls, logCalls, thrown, signals, call, ret>>
  /\ UNCHANGED <<env, resContentLength, initialContentLength, steps,
                 loggerVars>>

\* res.setHeader("content-length", v), before the response ends
SetResponseHeader(r, v) ==
  /\ phase[r] = "observed"
  /\ signals[r].first = "none"
  /\ v # resContentLength[r]
  /\ resContentLength' = [resContentLength EXCEPT ![r] = v]
  /\ UNCHANGED <<heap, options, phase, reqBody, statusCode, chainCodes,
                 listeners, handled, started, skipCalls, nextCalls,
                 levelCalls, logCalls, thrown, signals, call, ret>>
  /\ UNCHANGED <<env, request, initialContentLength, steps, loggerVars>>

(***************************************************************************)
(* createLogger's Proxy around the winston logger (logger.ts 214-288).     *)
(* baseLogger[l][m] tells what member m of logger l's target is: a         *)
(* "function", a "value" that is no function, "undefined" (the member is   *)
(* there and holds undefined), or "absent" (`m in target` is false).       *)
(***************************************************************************)
Loggers == {"first", "second"}
MemberNames == {"info", "warn", "log", "level", "success", "mystery"}
WinstonLogger ==
  [m \in MemberNames |->
     CASE m \in {"info", "warn", "log"} -> "function"
       [] m = "level" -> "value"
       [] OTHER -> "absent"]

UnknownMethodText(method) ==
  <<"Unknown logger method \"", method, "\" called. Falling back to info().">>
FallbackUnavailableText ==
  <<"Logger fallback invoked but no info/log method was available.">>
LevelKey == <<"l", "e", "v", "e", "l">>
MessageKey == <<"m", "e", "s", "s", "a", "g", "e">>
InfoText == <<"i", "n", "f", "o">>

\* a call that reaches the logger or the console: which method, which
\* arguments
SinkCall(to, args) == [to |-> to, args |-> args]

\* emitUnknownMethodWarning with one set of warned names for all loggers
emitUnknownMethodWarningShared(l, method) ==
  IF \E k \in Loggers : method \in warnedMethods[k]
  THEN [warnedMethods |-> warnedMethods[l] \cup {method}, calls |-> <<>>]
  ELSE [warnedMethods |-> warnedMethods[l] \cup {method},
        calls |-> <<SinkCall(IF baseLogger[l]["warn"] = "function"
                             THEN "warn" ELSE "console.warn",
                             <<Str(UnknownMethodText(method))>>)>>]

\* emitUnknownMethodWarning (216-227)
emitUnknownMethodWarning(l, method) ==
  IF method \in warnedMethods[l]
  THEN [warnedMethods |-> warnedMethods[l], calls |-> <<>>]
  ELSE [warnedMethods |-> warnedMethods[l] \cup {method},
        calls |-> <<SinkCall(IF baseLogger[l]["warn"] = "function"
                             THEN "warn" ELSE "console.warn",
                             <<Str(UnknownMethodText(method))>>)>>]

\* ensureLogArgs (229-234)
ensureLogArgs(incoming) ==
  IF Len(incoming) = 0 THEN <<Str(<<>>)>> ELSE incoming

\* toMessageString (236-249): [ok, text], ok = FALSE when String() throws
toMessageString(value) ==
  IF value.t = "str" THEN [ok |-> TRUE, text |-> value.s]
  ELSE LET serialized == JSONstringify(value)
       IN IF serialized.ok /\ serialized.def
          THEN [ok |-> TRUE, text |-> serialized.text]
          ELSE StringOf(IF value.t \in {"null", "undef"} THEN Str(<<>>)
                        ELSE value)

\* invokeInfoFallback passing the arguments on as they came
invokeInfoFallbackRawArgs(l, args) ==
  IF baseLogger[l]["info"] = "function"
  THEN [calls |-> <<SinkCall("info", args)>>, threw |-> FALSE,
        returned |-> "result"]
  ELSE [calls |-> <<>>, threw |-> FALSE, returned |-> "undefined"]

\* invokeInfoFallback (251-269): the calls made, whether an exception left
\* it, and whether it returned the method's result or undefined
invokeInfoFallback(l, args) ==
  LET infoArgs == ensureLogArgs(args)
  IN IF baseLogger[l]["info"] = "function"
     THEN [calls |-> <<SinkCall("info", infoArgs)>>, threw |-> FALSE,
           returned |-> "result"]
     ELSE IF baseLogger[l]["log"] = "function"
     THEN LET message == Head(infoArgs)
              rest == Tail(infoArgs)
              normalizedMessage == toMessageString(message)
          IN IF ~normalizedMessage.ok
             THEN [calls |-> <<>>, threw |-> TRUE, returned |-> "none"]
             ELSE IF Len(rest) > 0
             THEN [calls |-> <<SinkCall("log",
                                        <<Str(InfoText),
                                          Str(normalizedMessage.text)>>
                                        \o rest)>>,
                   threw |-> FALSE, returned |-> "result"]
             ELSE [calls |-> <<SinkCall("log",
                      <<Obj(<<Entry(LevelKey, Str(InfoText)),
                              Entry(MessageKey,
                                    Str(normalizedMessage.text))>>)>>)>>,
                   threw |-> FALSE, returned |-> "result"]
     ELSE [calls |-> <<SinkCall("console.warn",
                                <<Str(FallbackUnavailableText)>>)>>,
           threw |-> FALSE, returned |-> "undefined"]

\* the get trap taking every member that is no function for unknown
ProxyGetFunctionsOnly(l, prop) ==
  IF baseLogger[l][prop] # "function" THEN "fallback"
  ELSE baseLogger[l][prop]

\* the get trap (272-287): the fallback closure for a name not in the
\* target, else the target's member, a function bound to the target
ProxyGet(l, prop) ==
  IF baseLogger[l][prop] = "absent" THEN "fallback"
  ELSE baseLogger[l][prop]

NoOperation == [op |-> "none"]

\* logger[prop], not called
Get(l, prop) ==
  /\ last' = [op |-> "get", logger |-> l, prop |-> prop,
              got |-> ProxyGet(l, prop)]
  /\ UNCHANGED <<baseLogger, warnedMethods, warnings, unknownCalled>>
  /\ UNCHANGED <<requestVars, createVars>>

\* logger[prop](...args)
Invoke(l, prop, args) ==
  LET got == ProxyGet(l, prop)
  IN /\ IF got = "fallback"
        THEN LET warning == emitUnknownMethodWarning(l, prop)
                 fallback == invokeInfoFallback(l, args)
             IN /\ warnedMethods' =
                     [warnedMethods EXCEPT ![l] = warning.warnedMethods]
                /\ warnings' =
                     [warnings EXCEPT ![l] = @ + Len(warning.calls)]
                /\ unknownCalled' = [unknownCalled EXCEPT ![l] = @ \cup {prop}]
                /\ last' = [op |-> "call", logger |-> l, prop |-> prop,
                            args |-> args, got |-> got,
                            calls |-> warning.calls \o fallback.calls,
                            threw |-> fallback.threw,
                            returned |-> fallback.returned]
        ELSE /\ last' = [op |-> "call", logger |-> l, prop |-> prop,
                         args |-> args, got |-> got,
                         calls |-> IF got = "function"
                                   THEN <<SinkCall(prop, args)>> ELSE <<>>,
                         \* calling what is no function is a TypeError
                         threw |-> got # "function",
                         returned |-> IF got = "function" THEN "result"
                                      ELSE "none"]
             /\ UNCHANGED <<warnedMethods, warnings, unknownCalled>>
     /\ UNCHANGED baseLogger
     /\ UNCHANGED <<requestVars, createVars>>

\* logger[name] = a function, or = undefined: the Proxy has no set trap,
\* so the target's member changes
SetMember(l, name, kind) ==
  /\ baseLogger[l][name] # kind
  /\ baseLogger' = [baseLogger EXCEPT ![l][name] = kind]
  /\ last' = [op |-> "set", logger |-> l, prop |-> name]
  /\ UNCHANGED <<warnedMethods, warnings, unknownCalled>>
  /\ UNCHANGED <<requestVars, createVars>>

ProxyIdle ==
  /\ baseLogger = [l \in Loggers |-> WinstonLogger]
  /\ warnedMethods = [l \in Loggers |-> {}]
  /\ warnings = [l \in Loggers |-> 0]
  /\ unknownCalled = [l \in Loggers |-> {}]
  /\ last = NoOperation

(***************************************************************************)
(* createLogger and its formats (logger.ts 46-99, 135-212).  A text is a   *)
(* sequence of pieces; the clock is not modelled, a formatted time is the  *)
(* one piece TIMESTAMP_FORMAT.                                             *)
(***************************************************************************)
TIMESTAMP_FORMAT == "YYYY-MM-DD HH:mm:ss"
NewLine == "\n"
Space == " "
StackKey == <<"s", "t", "a", "c", "k">>

RECURSIVE TrimStart(_)
TrimStart(text) ==
  IF text # <<>> /\ Head(text) = Space THEN TrimStart(Tail(text)) ELSE text
RECURSIVE TrimEnd(_)
TrimEnd(text) ==
  IF text # <<>> /\ text[Len(text)] = Space
  THEN TrimEnd(SubSeq(text, 1, Len(text) - 1)) ELSE text
\* String.prototype.trim
Trim(text) == TrimEnd(TrimStart(text))

RECURSIVE Unique(_, _)
\* Array.from(new Set(list)): first occurrences, in order
Unique(list, acc) ==
  IF list = <<>> THEN acc
  ELSE Unique(Tail(list),
              IF Head(list) \in SeqToSet(acc) THEN acc
              ELSE Append(acc, Head(list)))

\* moment.tz.zone(zone) knows the zone
London == <<"Europe/London">>
Tokyo == <<"Asia/Tokyo">>
KnownZones == {London, Tokyo}

\* normalizeTimezones keeping the entries as they were written
normalizeTimezonesUntrimmed(zones) ==
  IF zones = Undefined \/ zones = Str(<<>>) THEN [ok |-> TRUE, zones |-> <<>>]
  ELSE LET list == IF zones.t = "arr"
                   THEN [i \in DOMAIN zones.items |-> zones.items[i].s]
                   ELSE <<zones.s>>
           unique == Unique(SelectSeq(list, LAMBDA z : Trim(z) # <<>>), <<>>)
           invalid == SelectSeq(unique, LAMBDA z : Trim(z) \notin KnownZones)
       IN IF invalid # <<>> THEN [ok |-> FALSE, zone |-> Head(invalid)]
          ELSE [ok |-> TRUE, zones |-> unique]

\* normalizeTimezones (46-61): the list, or the zone of the
\* InvalidTimezoneError thrown
normalizeTimezones(zones) ==
  IF zones = Undefined \/ zones = Str(<<>>) THEN [ok |-> TRUE, zones |-> <<>>]
  ELSE LET list == IF zones.t = "arr"
                   THEN [i \in DOMAIN zones.items |-> zones.items[i].s]
                   ELSE <<zones.s>>
           unique == Unique(SelectSeq([i \in DOMAIN list |-> Trim(list[i])],
                                      LAMBDA z : z # <<>>), <<>>)
           invalid == SelectSeq(unique, LAMBDA z : z \notin KnownZones)
       IN IF invalid # <<>> THEN [ok |-> FALSE, zone |-> Head(invalid)]
          ELSE [ok |-> TRUE, zones |-> unique]

\* String.prototype.toUpperCase, on the letters of the levels
UpperChar(c) ==
  CASE c = "i" -> "I" [] c = "n" -> "N" [] c = "f" -> "F" [] c = "o" -> "O"
    [] c = "w" -> "W" [] c = "a" -> "A" [] c = "r" -> "R" [] c = "e" -> "E"
    [] OTHER -> c
toUpperCase(s) == [i \in DOMAIN s |-> UpperChar(s[i])]

Indent(n) == [i \in 1..n |-> Space]

RECURSIVE JSONstringifyIndented(_, _)
\* JSON.stringify(v, null, 2), at nesting depth `depth`
JSONstringifyIndented(v, depth) ==
  CASE v.t \in {"str", "num", "null", "big", "undef", "fn"} -> JSONstringify(v)
    [] v.t = "arr" ->
         LET parts == [i \in DOMAIN v.items |->
                         JSONstringifyIndented(v.items[i], depth + 1)]
         IN IF \E i \in DOMAIN parts : ~parts[i].ok
            THEN [ok |-> FALSE, def |-> FALSE, text |-> <<>>]
            ELSE IF parts = <<>>
            THEN [ok |-> TRUE, def |-> TRUE, text |-> <<"[", "]">>]
            ELSE [ok |-> TRUE, def |-> TRUE,
                  text |-> <<"[", NewLine>> \o
                           Join([i \in DOMAIN parts |->
                                   Indent(2 * (depth + 1)) \o
                                   (IF parts[i].def THEN parts[i].text
                                    ELSE NullText)],
                                <<",", NewLine>>)
                           \o <<NewLine>> \o Indent(2 * depth) \o <<"]">>]
    [] v.t = "obj" ->
         LET toJSON == OwnProperty(v, ToJSONKey)
         IN IF toJSON.t = "fn"
            THEN IF toJSON.does = "throw"
                 THEN [ok |-> FALSE, def |-> FALSE, text |-> <<>>]
                 ELSE JSONstringify(Str(toJSON.r))
            ELSE LET parts == [i \in DOMAIN v.entries |->
                                 JSONstringifyIndented(v.entries[i].v,
                                                       depth + 1)]
                     kept == SelectSeq([i \in DOMAIN parts |-> i],
                                       LAMBDA i : parts[i].def)
                 IN IF \E i \in DOMAIN parts : ~parts[i].ok
                    THEN [ok |-> FALSE, def |-> FALSE, text |-> <<>>]
                    ELSE IF kept = <<>>
                    THEN [ok |-> TRUE, def |-> TRUE, text |-> <<"{", "}">>]
                    ELSE [ok |-> TRUE, def |-> TRUE,
                          text |-> <<"{", NewLine>> \o
                                   Join([j \in DOMAIN kept |->
                                           Indent(2 * (depth + 1)) \o
                                           Quote(v.entries[kept[j]].k)
                                           \o <<":", Space>>
                                           \o parts[kept[j]].text],
                                        <<",", NewLine>>)
                                   \o <<NewLine>> \o Indent(2 * depth)
                                   \o <<"}">>]

\* if (x): the value is truthy
Truthy(v) ==
  CASE v.t \in {"undef", "null"} -> FALSE
    [] v.t = "str" -> v.s # <<>>
    [] v.t \in {"num", "big"} -> v.n # 0
    [] OTHER -> TRUE

\* the lines with the timestamps pushed after the header and the message
formatLinesTimestampsLast(ctx, includeTimestamps, info, texts) ==
  <<<<"[">> \o texts.level \o <<"]", Space, "(">> \o ctx.label \o <<")">>,
    texts.message>>
  \o (IF Truthy(OwnProperty(info, StackKey)) THEN <<texts.stack>> ELSE <<>>)
  \o (IF texts.hasMeta THEN <<texts.meta>> ELSE <<>>)
  \o (IF includeTimestamps
      THEN <<<<"UTC:", Space, TIMESTAMP_FORMAT>>>>
           \o [i \in DOMAIN ctx.timezones |->
                 ctx.timezones[i] \o <<":", Space, TIMESTAMP_FORMAT>>]
      ELSE <<>>)

\* the `lines` array (76-96), given the texts of its blocks
formatLines(ctx, includeTimestamps, info, texts) ==
  (IF includeTimestamps
   THEN <<<<"UTC:", Space, TIMESTAMP_FORMAT>>>>
        \o [i \in DOMAIN ctx.timezones |->
              ctx.timezones[i] \o <<":", Space, TIMESTAMP_FORMAT>>]
   ELSE <<>>)
  \o <<<<"[">> \o texts.level \o <<"]", Space, "(">> \o ctx.label \o <<")">>,
       texts.message>>
  \o (IF Truthy(OwnProperty(info, StackKey)) THEN <<texts.stack>> ELSE <<>>)
  \o (IF texts.hasMeta THEN <<texts.meta>> ELSE <<>>)

\* formatMessage(ctx, options) applied to the record `info` (67-99):
\* [ok, text], ok = FALSE when a JSON.stringify throws
formatMessage(ctx, includeTimestamps, info) ==
  LET infoLevel == OwnProperty(info, LevelKey)
      level == toUpperCase(IF infoLevel.t \in {"undef", "null"}
                           THEN InfoText ELSE infoLevel.s)
      infoMessage == OwnProperty(info, MessageKey)
      message == IF infoMessage.t = "str"
                 THEN [ok |-> TRUE, def |-> TRUE, text |-> infoMessage.s]
                 ELSE JSONstringifyIndented(infoMessage, 0)
      stack == OwnProperty(info, StackKey)
      stackText == IF stack.t = "str"
                   THEN [ok |-> TRUE, def |-> TRUE, text |-> stack.s]
                   ELSE JSONstringifyIndented(stack, 0)
      metadata == SelectSeq(info.entries,
                            LAMBDA e : e.k \notin {StackKey, LevelKey,
                                                   MessageKey})
      hasMeta == Len(metadata) > 0
      metaText == JSONstringifyIndented(Obj(metadata), 0)
      \* Array.prototype.join renders an undefined element as ""
      texts == [level |-> level,
                message |-> IF message.def THEN message.text ELSE <<>>,
                stack |-> IF stackText.def THEN stackText.text ELSE <<>>,
                meta |-> metaText.text,
                hasMeta |-> hasMeta]
  IN IF \/ ~message.ok
        \/ Truthy(stack) /\ ~stackText.ok
        \/ hasMeta /\ ~metaText.ok
     THEN [ok |-> FALSE, text |-> <<>>]
     ELSE [ok |-> TRUE,
           text |-> Join(formatLines(ctx, includeTimestamps, info, texts),
                         <<NewLine>>) \o <<NewLine>>]

\* The transports createLogger builds (165-205), in the order it pushes
\* them; `timestamps` tells whether the transport's format has them (the
\* Console has its own format, the others the logger's).
GlobalLabel == <<"GLOBAL">>
GlobalName == <<"global">>
LogDirectory == <<"logs">>
Transport(kind, timestamps) == [kind |-> kind, timestamps |-> timestamps]
buildTransports(o) ==
  (IF o.includeConsole THEN <<Transport("Console", FALSE)>> ELSE <<>>)
  \o (IF o.includeFile THEN <<Transport("DailyRotateFile", TRUE)>> ELSE <<>>)
  \o (IF o.includeGlobalFile THEN <<Transport("DailyRotateFile", TRUE)>>
      ELSE <<>>)
  \o o.additionalTransports

NotMade == [state |-> "none"]

\* createLogger building the transports before it looks at the zones
CreateLoggerTransportsFirst ==
  /\ made = NotMade
  /\ dirs' = dirs \cup {loggerOptions.logDirectory}
  /\ made' =
       LET timezones == normalizeTimezones(loggerOptions.extraTimezones)
       IN IF ~timezones.ok
          THEN [state |-> "threw",
                error |-> [name |-> "InvalidTimezoneError",
                           zone |-> timezones.zone],
                transports |-> buildTransports(loggerOptions)]
          ELSE [state |-> "returned",
                ctx |-> [label |-> IF loggerOptions.moduleName = GlobalName
                                   THEN GlobalLabel
                                   ELSE loggerOptions.moduleName,
                         timezones |-> timezones.zones],
                transports |-> buildTransports(loggerOptions)]
  /\ UNCHANGED <<loggerOptions, rendered>>
  /\ UNCHANGED <<requestVars, proxyVars>>

\* createLogger(options) (135-212): the log directory is ensured first
\* (151), then the zones are normalized (153), and only then are the
\* formats, the transports and the winston logger built
CreateLogger ==
  /\ made = NotMade
  /\ dirs' = dirs \cup {loggerOptions.logDirectory}
  /\ made' =
       LET timezones == normalizeTimezones(loggerOptions.extraTimezones)
       IN IF ~timezones.ok
          THEN [state |-> "threw",
                error |-> [name |-> "InvalidTimezoneError",
                           zone |-> timezones.zone],
                transports |-> <<>>]
          ELSE [state |-> "returned",
                ctx |-> [label |-> IF loggerOptions.moduleName = GlobalName
                                   THEN GlobalLabel
                                   ELSE loggerOptions.moduleName,
                         timezones |-> timezones.zones],
                transports |-> buildTransports(loggerOptions)]
  /\ UNCHANGED <<loggerOptions, rendered>>
  /\ UNCHANGED <<requestVars, proxyVars>>

\* logger.log(info) on the created logger: every transport renders the
\* record with its format
Log(info) ==
  /\ made.state = "returned"
  /\ Len(rendered) < MaxRecords
  /\ rendered' =
       Append(rendered,
              [info |-> info,
               outputs |-> [i \in DOMAIN made.transports |->
                              formatMessage(made.ctx,
                                            made.transports[i].timestamps,
                                            info)]])
  /\ UNCHANGED <<loggerOptions, made, dirs>>
  /\ UNCHANGED <<requestVars, proxyVars>>

DefaultLoggerOptions ==
  [moduleName |-> GlobalName, logDirectory |-> LogDirectory,
   includeConsole |-> TRUE, includeFile |-> TRUE, includeGlobalFile |-> TRUE,
   extraTimezones |-> Undefined, additionalTransports |-> <<>>]

CreateIdle ==
  /\ loggerOptions = DefaultLoggerOptions
  /\ made = NotMade
  /\ dirs = {}
  /\ rendered = <<>>

LoggerIdle == ProxyIdle /\ CreateIdle

(***************************************************************************)
(* The middleware under a caller's configuration.  Every request of one    *)
(* run carries the same body; SampleHeap holds the bodies.                 *)
(***************************************************************************)
SampleHeap ==
  [i \in 1..3 |->
     CASE i = 1 -> Obj(<<Entry(<<"a">>, Str(<<"s">>)),
                         Entry(<<"P">>, Str(<<"s">>))>>)
       [] i = 2 -> Arr(<<Big(42)>>)
       [] i = 3 -> Obj(<<Entry(ToJSONKey, FnThrow),
                         Entry(ToStringKey, FnThrow)>>)]

NoSkip == [DefaultOptions EXCEPT !.skip = FALSE]
WithBody == [NoSkip EXCEPT !.includeRequestBody = TRUE,
                           !.maskBodyKeys = <<<<"p">>>>]

\* A scenario: the configuration, the body the requests carry, and the
\* status codes the handler chain sets.  The status decides nothing but the
\* level, so it varies in the scenarios that vary the level.
Scenarios ==
  {[options |-> o, body |-> Ref(1), codes |-> StatusCodes] :
     o \in {DefaultOptions,
            [NoSkip EXCEPT !.level = "fixed"],
            [NoSkip EXCEPT !.level = "fn"]}}
  \cup
  {[options |-> o, body |-> Ref(1), codes |-> {Num(500)}] :
     o \in {NoSkip,
            [NoSkip EXCEPT !.level = "fnThrows"],
            [NoSkip EXCEPT !.enrich = "returns"],
            [NoSkip EXCEPT !.enrich = "throws"],
            [NoSkip EXCEPT !.messageBuilder = "throws"],
            [NoSkip EXCEPT !.sink = "throws"]}}
  \cup
  {[options |-> WithBody, body |-> b, codes |-> {}] :
     b \in {Ref(1), Ref(2), Ref(3)}}

NoCall == [fn |-> "none"]

Idle ==
  /\ phase = [r \in Requests |-> "new"]
  /\ statusCode = [r \in Requests |-> InitialStatus]
  /\ listeners = [r \in Requests |-> {}]
  /\ handled = [r \in Requests |-> FALSE]
  /\ started = [r \in Requests |-> FALSE]
  /\ skipCalls = [r \in Requests |-> 0]
  /\ nextCalls = [r \in Requests |-> 0]
  /\ levelCalls = [r \in Requests |-> <<>>]
  /\ logCalls = [r \in Requests |-> <<>>]
  /\ thrown = [r \in Requests |-> <<>>]
  /\ signals = [r \in Requests |-> [first |-> "none", late |-> FALSE]]
  /\ initialContentLength = [r \in Requests |-> Undefined]
  /\ steps = [r \in Requests |-> <<>>]

\* The request of the tests (MockRequest, request-middleware.spec.ts
\* 35-55), a response without a content-length header, and an environment
\* in which DEPLOYMENT_STAGE is not set.
MockRequest ==
  [method |-> Str(<<"P", "O", "S", "T">>),
   originalUrl |-> Str(<<"/", "a">>), url |-> Str(<<"/", "a">>),
   contentLength |-> Str(<<"1", "2", "8">>)]
DeploymentStage == "DEPLOYMENT_STAGE"
NoEnv == [v \in {DeploymentStage} |-> Undefined]
Plain ==
  /\ env = NoEnv
  /\ request = [r \in Requests |-> MockRequest]
  /\ resContentLength = [r \in Requests |-> Undefined]

Init ==
  /\ heap = SampleHeap
  /\ \E sc \in Scenarios :
       /\ options = sc.options
       /\ reqBody = [r \in Requests |-> sc.body]
       /\ chainCodes = sc.codes
  /\ Idle
  /\ Plain
  /\ call = NoCall
  /\ ret = NoCall
  /\ LoggerIdle

Next ==
  \E r \in Requests :
    \/ Middleware(r)
    \/ \E s \in StatusCodes : SetStatus(r, s)
    \/ \E ev \in {"finish", "close"} : Emit(r, ev)

Spec == Init /\ [][Next]_vars

(***************************************************************************)
(* One request under the configurations, environments and request shapes   *)
(* that decide what its entry holds.                                        *)
(***************************************************************************)
\* loggingMode: { sources: ["DEPLOYMENT_STAGE"], allow: ["staging", "qa"],
\* fallback: false } (README 152)
CustomMode ==
  [mode |-> "custom", sources |-> <<DeploymentStage>>,
   allow |-> <<<<"s", "t", "a", "g", "i", "n", "g">>, <<"q", "a">>>>,
   fallback |-> FALSE]
\* the values of DEPLOYMENT_STAGE: not set, allowed, allowed in another
\* case, not allowed
StageValues ==
  {Undefined, Str(<<"s", "t", "a", "g", "i", "n", "g">>), Str(<<"Q", "A">>),
   Str(<<"p", "r", "o", "d">>)}
\* requests with and without method, originalUrl and url
RequestShapes ==
  {[MockRequest EXCEPT !.method = m, !.originalUrl = o, !.url = u] :
     m \in {Undefined, MockRequest.method},
     o \in {Undefined, Str(<<"/", "o">>)},
     u \in {Undefined, MockRequest.url}}

EntryScenarios ==
  {[options |-> [NoSkip EXCEPT !.includeHttpContext = h, !.loggingMode = m],
    env |-> [NoEnv EXCEPT ![DeploymentStage] = e],
    request |-> MockRequest, codes |-> {}] :
     h \in BOOLEAN, m \in {AlwaysMode, CustomMode}, e \in StageValues}
  \cup
  {[options |-> NoSkip, env |-> NoEnv, request |-> q,
    codes |-> {Undefined, Num(500)}] : q \in RequestShapes}
  \cup
  {[options |-> NoSkip, env |-> NoEnv,
    request |-> [MockRequest EXCEPT !.contentLength = v], codes |-> {}] :
     v \in LengthValues}

EntryInit ==
  /\ heap = SampleHeap
  /\ \E sc \in EntryScenarios :
       /\ options = sc.options
       /\ env = sc.env
       /\ request = [r \in Requests |-> sc.request]
       /\ chainCodes = sc.codes
  /\ reqBody = [r \in Requests |-> Ref(1)]
  /\ resContentLength = [r \in Requests |-> Undefined]
  /\ Idle
  /\ call = NoCall
  /\ ret = NoCall
  /\ LoggerIdle

EntryNext ==
  \/ Middleware(1)
  \/ \E s \in StatusCodes : SetStatus(1, s)
  \/ \E v \in LengthValues : SetRequestHeader(1, v)
  \/ \E v \in LengthValues : SetResponseHeader(1, v)
  \/ \E ev \in {"finish", "close"} : Emit(1, ev)

EntrySpec == EntryInit /\ [][EntryNext]_vars

(***************************************************************************)
(* Direct calls of the internal helpers (__requestInternals), on generated *)
(* inputs.                                                                 *)
(*                                                                         *)
(* Graphs: NumObjs composites at most, numbered in the order a walk from   *)
(* the root meets them (composite i refers to composites up to i + 1, and  *)
(* every composite but the root is referred to by an earlier one).  A      *)
(* composite is an array or a plain object of one or two slots, with the   *)
(* keys "P" and "a"; a slot holds a text or a reference, so graphs with    *)
(* cycles and with shared composites are among them.                       *)
(***************************************************************************)
KeyP == <<"P">>
KeyA == <<"a">>
LeafText == Str(<<"s">>)

Slots(o) == IF o.t = "arr" THEN SeqToSet(o.items)
            ELSE {o.entries[i].v : i \in DOMAIN o.entries}

Composites(V) ==
  {Arr(<<v>>) : v \in V} \cup {Arr(<<v, w>>) : v, w \in V}
  \cup {Obj(<<Entry(k, v)>>) : k \in {KeyP, KeyA}, v \in V}
  \cup {Obj(<<Entry(KeyP, v), Entry(KeyA, w)>>) : v, w \in V}

GraphValues(n, i) ==
  {LeafText} \cup {Ref(j) : j \in 1..(IF i + 1 < n THEN i + 1 ELSE n)}

Graphs(n) ==
  {h \in [1..n -> Composites(GraphValues(n, n))] :
     /\ \A i \in 1..n : h[i] \in Composites(GraphValues(n, i))
     /\ \A i \in 2..n : \E j \in 1..(i - 1) : Ref(i) \in Slots(h[j])}

\* redactValue takes the lower-cased Set serializeBody builds; serializeBody
\* takes the caller's list
GraphCall(c) ==
  \/ \E m \in {{}, {<<"p">>}} :
       c = [fn |-> "redactValue", value |-> Ref(1), maskSet |-> m,
            seen |-> {}]
  \/ \E m \in {<<>>, <<KeyP>>} :
       c = [fn |-> "serializeBody", body |-> Ref(1), maskKeys |-> m,
            maxLength |-> DEFAULT_BODY_LIMIT]

\* Bodies for the text forms: primitives, arrays of leaves, and a plain
\* object that may carry its own toJSON and toString.
Leaves == {LeafText, Num(7), Big(1), Null, Undefined}
Primitives == Leaves \cup {Str(<<>>), Str(<<"t", "r", "u", "n", "c">>),
                           Num(12345), Big(12345)}
Decorated ==
  {Obj(own \o toJSON \o toString) :
     own \in {<<>>, <<Entry(KeyA, Num(7))>>, <<Entry(KeyA, Big(1))>>},
     toJSON \in {<<>>, <<Entry(ToJSONKey, FnThrow)>>,
                 <<Entry(ToJSONKey, FnRet(<<"r">>))>>},
     toString \in {<<>>, <<Entry(ToStringKey, FnThrow)>>,
                   <<Entry(ToStringKey, FnRet(<<"f", "a", "l", "l", "b">>))>>,
                   <<Entry(ToStringKey, LeafText)>>}}
LeafArrays == {Arr(<<v>>) : v \in Leaves} \cup {Arr(<<v, w>>) : v, w \in Leaves}
RefArrays == {Arr(<<Ref(2)>>)}
             \cup {Arr(<<v, Ref(2)>>) : v \in Leaves}
             \cup {Arr(<<Ref(2), v>>) : v \in Leaves}

TextBodies ==
  {[heap |-> <<Arr(<<>>), Obj(<<>>)>>, body |-> v] : v \in Primitives}
  \cup {[heap |-> <<a, Obj(<<>>)>>, body |-> Ref(1)] : a \in LeafArrays}
  \cup {[heap |-> <<Arr(<<>>), d>>, body |-> Ref(2)] : d \in Decorated}
  \cup {[heap |-> <<a, d>>, body |-> Ref(1)] : a \in RefArrays, d \in Decorated}

TextLengths == (0..MaxBodyLen) \cup {DEFAULT_BODY_LIMIT}

\* Header maps of up to MaxHeaders headers with distinct names, two of
\* which differ in case only, and allow lists of up to MaxHeaders names:
\* names of headers in either case, a name no header has, and the name of
\* a member that plain objects inherit.
HeaderNames == {<<"A">>, <<"a">>, <<"P">>}
HeaderValues == {Str(<<"x">>), Str(<<"y">>)}
AllowNames == {<<"A">>, <<"a">>, <<"p">>, <<"n">>, ConstructorKey}
SeqsUpTo(S, n) == UNION {[1..m -> S] : m \in 0..n}
HeaderMaps ==
  {Undefined} \cup
  {Obj([i \in DOMAIN ks |-> Entry(ks[i], vs[i])]) :
     <<ks, vs>> \in {p \in SeqsUpTo(HeaderNames, MaxHeaders)
                          \X SeqsUpTo(HeaderValues, MaxHeaders) :
                      /\ Len(p[1]) = Len(p[2])
                      /\ \A i, j \in DOMAIN p[1] :
                           p[1][i] = p[1][j] => i = j}}
Includes ==
  {Undefined, Bool(FALSE), Bool(TRUE)}
  \cup {AllowList(ks) : ks \in SeqsUpTo(AllowNames, MaxHeaders)}

\* Records for formatMessage: with and without a level, a message that is
\* a string (ending with a line terminator or not), an object, absent or
\* not serializable, a stack that is a string (likewise) or an object, and
\* up to two metadata fields.
Levels == {<<"w", "a", "r", "n">>, <<"e", "r", "r", "o", "r">>}
InfoParts ==
  [level : {<<>>} \cup {<<Entry(LevelKey, Str(l))>> : l \in Levels},
   message : {<<>>, <<Entry(MessageKey, Str(<<"m">>))>>,
              <<Entry(MessageKey, Str(<<"m", NewLine>>))>>,
              <<Entry(MessageKey, Obj(<<Entry(KeyA, LeafText)>>))>>,
              <<Entry(MessageKey, Big(1))>>},
   stack : {<<>>, <<Entry(StackKey, Str(<<"E", NewLine, "at">>))>>,
            <<Entry(StackKey, Str(<<"E", NewLine>>))>>,
            <<Entry(StackKey, Obj(<<Entry(KeyA, Num(7))>>))>>},
   meta : {<<>>, <<Entry(KeyA, Num(7))>>,
           <<Entry(KeyA, Arr(<<LeafText>>)), Entry(KeyP, Null)>>}]
Infos == {Obj(p.level \o p.message \o p.stack \o p.meta) : p \in InfoParts}
Contexts ==
  [label : {GlobalLabel, <<"a", "p", "i">>},
   timezones : {<<>>, <<London>>, <<London, Tokyo>>, <<Tokyo, London>>}]

CallsInit ==
  /\ \/ \E n \in 1..NumObjs : \E h \in Graphs(n) :
          /\ heap = h
          /\ GraphCall(call)
     \/ \E b \in TextBodies, n \in TextLengths :
          /\ heap = b.heap
          /\ call = [fn |-> "serializeBody", body |-> b.body,
                     maskKeys |-> <<>>, maxLength |-> n]
     \/ \E h \in HeaderMaps, i \in Includes :
          /\ heap = <<Arr(<<>>)>>
          /\ call = [fn |-> "normalizeHeaders", headers |-> h,
                     include |-> i]
     \/ \E c \in Contexts, t \in BOOLEAN, i \in Infos :
          /\ heap = <<Arr(<<>>)>>
          /\ call = [fn |-> "formatMessage", ctx |-> c,
                     includeTimestamps |-> t, info |-> i]
  /\ ret = NoCall
  /\ options = DefaultOptions
  /\ reqBody = [r \in Requests |-> Undefined]
  /\ chainCodes = {}
  /\ Idle
  /\ Plain
  /\ LoggerIdle

CallRedactValue ==
  /\ call.fn = "redactValue"
  /\ ret = NoCall
  /\ ret' = [fn |-> "redactValue",
             masked |-> redactValue(call.value, call.maskSet, call.seen)]
  /\ UNCHANGED <<heap, options, phase, reqBody, statusCode, chainCodes,
                 listeners, handled, started, skipCalls, nextCalls,
                 levelCalls, logCalls, thrown, signals, call>>
  /\ UNCHANGED <<entryVars, loggerVars>>

CallSerializeBody ==
  /\ call.fn = "serializeBody"
  /\ ret = NoCall
  /\ ret' = [fn |-> "serializeBody",
             result |-> serializeBody(call.body, call.maskKeys,
                                      call.maxLength)]
  /\ UNCHANGED <<heap, options, phase, reqBody, statusCode, chainCodes,
                 listeners, handled, started, skipCalls, nextCalls,
                 levelCalls, logCalls, thrown, signals, call>>
  /\ UNCHANGED <<entryVars, loggerVars>>

CallNormalizeHeaders ==
  /\ call.fn = "normalizeHeaders"
  /\ ret = NoCall
  /\ ret' = [fn |-> "normalizeHeaders",
             headers |-> normalizeHeaders(call.headers, call.include)]
  /\ UNCHANGED <<heap, options, phase, reqBody, statusCode, chainCodes,
                 listeners, handled, started, skipCalls, nextCalls,
                 levelCalls, logCalls, thrown, signals, call>>
  /\ UNCHANGED <<entryVars, loggerVars>>

\* __loggerInternals.formatMessage(ctx, options).transform(info)
CallFormatMessage ==
  /\ call.fn = "formatMessage"
  /\ ret = NoCall
  /\ ret' = [fn |-> "formatMessage",
             out |-> formatMessage(call.ctx, call.includeTimestamps,
                                   call.info)]
  /\ UNCHANGED <<heap, options, phase, reqBody, statusCode, chainCodes,
                 listeners, handled, started, skipCalls, nextCalls,
                 levelCalls, logCalls, thrown, signals, call>>
  /\ UNCHANGED <<entryVars, loggerVars>>

CallsNext ==
  \/ CallRedactValue
  \/ CallSerializeBody
  \/ CallNormalizeHeaders
  \/ CallFormatMessage

CallsSpec == CallsInit /\ [][CallsNext]_vars

(***************************************************************************)
(* The logger proxies in use: two loggers made by createLogger, called     *)
(* with known and unknown names.                                           *)
(***************************************************************************)
RequestIdle ==
  /\ heap = <<Arr(<<>>)>>
  /\ options = DefaultOptions
  /\ reqBody = [r \in Requests |-> Undefined]
  /\ chainCodes = {}
  /\ Idle
  /\ Plain
  /\ call = NoCall
  /\ ret = NoCall

\* a body whose toJSON and toString throw
Hostile == Obj(<<Entry(ToJSONKey, FnThrow), Entry(ToStringKey, FnThrow)>>)
Meta == Obj(<<Entry(KeyA, LeafText)>>)
ArgLists ==
  {<<>>, <<Str(<<"m">>)>>, <<Str(<<"m">>), Meta>>, <<Meta>>, <<Big(42)>>,
   <<Null>>, <<Undefined>>, <<Hostile>>}

LoggerInit == RequestIdle /\ ProxyIdle /\ CreateIdle

\* The members of the first logger are replaced; the second stays as
\* winston made it.
LoggerNext ==
  \/ \E l \in Loggers, prop \in MemberNames : Get(l, prop)
  \/ \E l \in Loggers, prop \in MemberNames :
       \E args \in (IF WinstonLogger[prop] = "absent" THEN ArgLists
                     ELSE {<<>>, <<Str(<<"m">>), Meta>>}) :
         Invoke(l, prop, args)
  \/ \E name \in {"info", "warn", "log"}, kind \in {"function", "undefined"} :
       SetMember("first", name, kind)

LoggerSpec == LoggerInit /\ [][LoggerNext]_vars

(***************************************************************************)
(* createLogger called with a caller's options, and records logged         *)
(* through the logger it returns.                                          *)
(***************************************************************************)
ZoneTexts == {<<>>, <<Space>>, London, <<Space>> \o London \o <<Space>>,
              Tokyo, <<"Mars/Phobos">>}
ZoneInputs ==
  {Undefined} \cup {Str(z) : z \in ZoneTexts}
  \cup {Arr([i \in DOMAIN zs |-> Str(zs[i])]) :
          zs \in SeqsUpTo(ZoneTexts, MaxZones)}
LoggerOptionsSet ==
  {[DefaultLoggerOptions EXCEPT !.moduleName = m, !.includeConsole = c,
                                !.includeFile = f, !.extraTimezones = z] :
     m \in {GlobalName, <<"a", "p", "i">>}, c \in BOOLEAN, f \in BOOLEAN,
     z \in ZoneInputs}
LoggedInfos ==
  {Obj(<<Entry(LevelKey, Str(<<"w", "a", "r", "n">>)),
         Entry(MessageKey, Str(<<"m">>))>>),
   Obj(<<Entry(LevelKey, Str(<<"e", "r", "r", "o", "r">>)),
         Entry(MessageKey, Str(<<"m">>)),
         Entry(StackKey, Str(<<"E", NewLine, "at">>)),
         Entry(KeyA, Num(7))>>)}

CreateInit ==
  /\ RequestIdle
  /\ ProxyIdle
  /\ loggerOptions \in LoggerOptionsSet
  /\ made = NotMade
  /\ dirs = {}
  /\ rendered = <<>>

CreateNext == CreateLogger \/ \E info \in LoggedInfos : Log(info)

CreateSpec == CreateInit /\ [][CreateNext]_vars

(***************************************************************************)
(* Properties of the middleware, checked under Spec.                       *)
(***************************************************************************)
Observed(r) == phase[r] = "observed"
Signalled(r) == signals[r].first # "none"
FirstEvent(r) == IF signals[r].first = "finish" THEN "completed" ELSE "aborted"
\* finalize ran up to the call of logger.log
ReachedLog(r) == thrown[r] \in {<<>>, <<"log">>}

C2_FirstSignalDecides ==
  /\ [](\A r \in Requests :
          Observed(r) /\ Signalled(r) =>
            /\ handled[r]
            /\ listeners[r] = {}
            /\ Len(logCalls[r]) <= 1
            /\ \A i \in DOMAIN logCalls[r] :
                 logCalls[r][i].http.event = FirstEvent(r))
  /\ [][\A r \in Requests :
          handled[r] => /\ handled'[r]
                        /\ listeners'[r] = {}
                        /\ logCalls'[r] = logCalls[r]]_vars

\* a request aborted first and signalled again: its entry says aborted
C2_Witness ==
  \E r \in Requests :
    /\ signals[r] = [first |-> "close", late |-> TRUE]
    /\ Len(logCalls[r]) = 1
    /\ logCalls[r][1].http.event = "aborted"

\* what one request owns
PerRequest(r) ==
  <<phase[r], statusCode[r], listeners[r], handled[r], started[r],
    skipCalls[r], nextCalls[r], levelCalls[r], logCalls[r], thrown[r],
    signals[r]>>

C4_SkippedIsUnobserved ==
  \A r \in Requests :
    phase[r] = "skipped" =>
      /\ skipCalls[r] = 1
      /\ nextCalls[r] = 1
      /\ ~started[r]
      /\ listeners[r] = {}
      /\ ~handled[r]
      /\ logCalls[r] = <<>>
      /\ levelCalls[r] = <<>>

\* a skipped request on whose response two signals fired
C4_Witness ==
  \E r \in Requests :
    phase[r] = "skipped" /\ signals[r].late /\ logCalls[r] = <<>>

\* C5: with no level override the entry's level is error for a status code
\* >= 500, warn for 400..499 and info for any other (the defaulted 0
\* included), whatever the event.
C5_DefaultLevelByStatus ==
  options.level = "none" =>
    \A r \in Requests : \A i \in DOMAIN logCalls[r] :
      LET status == logCalls[r][i].http.statusCode
          level == logCalls[r][i].level
      IN /\ status = resolveStatus(r)
         /\ status >= 500 => level = "error"
         /\ (status >= 400 /\ status <= 499) => level = "warn"
         /\ status < 400 => level = "info"

\* an aborted request at 499 logged as warn, and a completed one without a
\* status code logged as info with status 0
C5_Witness ==
  /\ options.level = "none"
  /\ \E r, q \in Requests :
       /\ Len(logCalls[r]) = 1 /\ Len(logCalls[q]) = 1
       /\ logCalls[r][1].http.event = "aborted"
       /\ logCalls[r][1].http.statusCode = 499
       /\ logCalls[r][1].level = "warn"
       /\ logCalls[q][1].http.event = "completed"
       /\ statusCode[q] = Undefined
       /\ logCalls[q][1].http.statusCode = 0
       /\ logCalls[q][1].level = "info"

\* C6: a level function is called exactly once per finalize, with the status
\* code the response has when the first signal fires, and its result is the
\* entry's level; a fixed level is the entry's level for every status code;
\* the default mapping is used only without an override.
C6_LevelOverride ==
  \A r \in Requests :
    /\ levelCalls[r] =
         (IF options.level \in {"fn", "fnThrows"} /\ handled[r]
          THEN <<resolveStatus(r)>> ELSE <<>>)
    /\ \A i \in DOMAIN logCalls[r] :
         logCalls[r][i].level =
           (CASE options.level = "fn" -> LevelFn(resolveStatus(r))
              [] options.level = "fixed" -> FixedLevel
              [] OTHER -> determineLevel(resolveStatus(r)))

\* a level function called with the status set after the middleware ran,
\* its result differing from the default mapping's
C6_Witness ==
  /\ options.level = "fn"
  /\ \E r \in Requests :
       /\ levelCalls[r] = <<500>>
       /\ statusCode[r] # InitialStatus
       /\ Len(logCalls[r]) = 1
       /\ logCalls[r][1].level = "debug"

(***************************************************************************)
(* Properties of redactValue and serializeBody, checked under CallsSpec.   *)
(***************************************************************************)
LowerSet(keys) == {toLowerCase(k) : k \in SeqToSet(keys)}

\* every leaf of the graph is a text: JSON.parse gives the redacted value
\* back as it was
TextLeavesOnly ==
  \A i \in DOMAIN heap : \A x \in Slots(heap[i]) : x.t \in {"ref", "str"}

\* `out` is `v` with its masked entries redacted: a primitive is itself; an
\* array has its items in place; a mapping has its keys in place, the value
\* of a key whose lower-cased form is in `mask` being "[REDACTED]" and any
\* other value being redacted in turn.  A composite may also stand as
\* "[Circular]".
RECURSIVE Redacted(_, _, _)
Redacted(v, out, mask) ==
  IF v.t # "ref" THEN out = v
  ELSE IF out = Str(CircularText) THEN TRUE
  ELSE LET o == heap[v.id]
       IN IF o.t = "arr"
          THEN /\ out.t = "arr"
               /\ Len(out.items) = Len(o.items)
               /\ \A i \in DOMAIN o.items :
                    Redacted(o.items[i], out.items[i], mask)
          ELSE /\ out.t = "obj"
               /\ Len(out.entries) = Len(o.entries)
               /\ \A i \in DOMAIN o.entries :
                    /\ out.entries[i].k = o.entries[i].k
                    /\ IF toLowerCase(o.entries[i].k) \in mask
                       THEN out.entries[i].v = Str(RedactedText)
                       ELSE Redacted(o.entries[i].v, out.entries[i].v, mask)

\* C7: in the redacted output, at every depth and inside arrays too, an
\* entry whose lower-cased key is in the lower-cased masked-key set has the
\* value "[REDACTED]", every other entry keeps its key with its redacted
\* value, and primitive leaves are unchanged.
C7_MaskedEntriesRedacted ==
  /\ ret.fn = "redactValue" =>
       Redacted(call.value, ret.masked.out, call.maskSet)
  /\ (ret.fn = "serializeBody" /\ TextLeavesOnly /\ call.body.t = "ref"
      /\ call.maxLength = DEFAULT_BODY_LIMIT) =>
       /\ ~ret.result.threw
       /\ Redacted(call.body, ret.result.val, LowerSet(call.maskKeys))

\* a mapping inside an array, its key "P" masked by "p" and its key "a" kept
C7_Witness ==
  /\ ret.fn = "serializeBody"
  /\ call.maskKeys = <<KeyP>>
  /\ heap = <<Arr(<<Ref(2)>>),
              Obj(<<Entry(KeyP, LeafText), Entry(KeyA, LeafText)>>)>>
  /\ ret.result.val =
       Arr(<<Obj(<<Entry(KeyP, Str(RedactedText)), Entry(KeyA, LeafText)>>)>>)

\* `out` cuts the cycles of `v`: where the walk, which does not enter a
\* masked entry, reaches a composite that is on its own path from the root,
\* `out` has "[Circular]"; `path` is the composites from the root to here.
RECURSIVE CyclesCut(_, _, _, _)
CyclesCut(v, out, mask, path) ==
  IF v.t # "ref" THEN TRUE
  ELSE IF v.id \in path THEN out = Str(CircularText)
  ELSE IF out = Str(CircularText) THEN TRUE
  ELSE LET o == heap[v.id]
       IN IF o.t = "arr"
          THEN /\ out.t = "arr"
               /\ Len(out.items) = Len(o.items)
               /\ \A i \in DOMAIN o.items :
                    CyclesCut(o.items[i], out.items[i], mask,
                              path \cup {v.id})
          ELSE /\ out.t = "obj"
               /\ Len(out.entries) = Len(o.entries)
               /\ \A i \in DOMAIN o.entries :
                    \/ toLowerCase(o.entries[i].k) \in mask
                    \/ CyclesCut(o.entries[i].v, out.entries[i].v, mask,
                                 path \cup {v.id})

\* C8: on a body graph with a cycle redaction ends, and its output has
\* "[Circular]" where the walk reaches again a composite it is inside of.
C8_CyclesCut ==
  ret.fn = "redactValue" =>
    CyclesCut(call.value, ret.masked.out, call.maskSet, {})

\* an array holding a mapping that holds the array
C8_Witness ==
  /\ ret.fn = "redactValue"
  /\ heap = <<Arr(<<Ref(2)>>), Obj(<<Entry(KeyA, Ref(1))>>)>>
  /\ ret.masked.out = Arr(<<Obj(<<Entry(KeyA, Str(CircularText))>>)>>)

\* the redacted shape of the call's body, and its text form: the string
\* itself, its JSON text, or else its string coercion (ok = FALSE when the
\* coercion throws)
MaskedBody == redactValue(call.body, LowerSet(call.maskKeys), {}).out
JsonFailed == MaskedBody.t # "str" /\
              ~(JSONstringify(MaskedBody).ok /\ JSONstringify(MaskedBody).def)
TextForm ==
  IF MaskedBody.t = "str" THEN [ok |-> TRUE, text |-> MaskedBody.s]
  ELSE IF ~JsonFailed
  THEN [ok |-> TRUE, text |-> JSONstringify(MaskedBody).text]
  ELSE StringOf(MaskedBody)
SerializedBody == ret.fn = "serializeBody" /\ call.body.t \notin {"undef", "null"}

\* C9: a body whose text form is longer than maxBodyLength (a whole number
\* >= 0) is returned as the first maxBodyLength characters of that text
\* followed by one ellipsis, maxBodyLength + 1 characters in all.
C9_TruncatesToBoundPlusEllipsis ==
  (SerializedBody /\ TextForm.ok /\ Len(TextForm.text) > call.maxLength) =>
    /\ ~ret.result.threw
    /\ ret.result.val.t = "str"
    /\ Len(ret.result.val.s) = call.maxLength + 1
    /\ SubSeq(ret.result.val.s, 1, call.maxLength) =
         SubSeq(TextForm.text, 1, call.maxLength)
    /\ ret.result.val.s[call.maxLength + 1] = Ellipsis

\* [7,"s"] cut to its first four characters
C9_Witness ==
  /\ ret.fn = "serializeBody"
  /\ heap[1] = Arr(<<Num(7), LeafText>>)
  /\ call.body = Ref(1)
  /\ call.maxLength = 4
  /\ ret.result.val = Str(<<"[", "7", ",", "\"", Ellipsis>>)

\* C10, as claimed: when the redacted body cannot be serialized (a BigInt
\* leaf, a throwing toJSON), no exception leaves serializeBody, and the
\* result is the string coercion of the redacted shape, cut to
\* maxBodyLength plus ellipsis when longer.
C10_FailureNeverPropagates ==
  (SerializedBody /\ JsonFailed) =>
    /\ ~ret.result.threw
    /\ StringOf(MaskedBody).ok
    /\ ret.result.val =
         Str(IF Len(StringOf(MaskedBody).text) > call.maxLength
             THEN SubSeq(StringOf(MaskedBody).text, 1, call.maxLength)
                  \o <<Ellipsis>>
             ELSE StringOf(MaskedBody).text)

\* C11, as claimed: serializeBody returns undefined for a null or undefined
\* body; the parsed redacted value when serialization succeeded and the
\* text is not longer than maxBodyLength; and a string when the body is a
\* string, when the text was truncated, or when serialization failed.
C11_ResultByOutcome ==
  ret.fn = "serializeBody" =>
    IF call.body.t \in {"undef", "null"}
    THEN ret.result = Return(Undefined)
    ELSE /\ ~ret.result.threw
         /\ IF MaskedBody.t = "str" \/ JsonFailed
               \/ Len(TextForm.text) > call.maxLength
            THEN ret.result.val.t = "str"
            ELSE ret.result.val = JSONparse(JSONstringify(MaskedBody).text)

(***************************************************************************)
(* Properties of normalizeHeaders, checked under CallsSpec.                *)
(***************************************************************************)
NormalizedHeaders == ret.fn = "normalizeHeaders"
OwnKeys(entries) == {entries[i].k : i \in DOMAIN entries}
\* the value a header map holds for a lower-cased name: that of the last
\* header whose name lower-cases to it
LastValue(entries, lower) ==
  entries[CHOOSE i \in DOMAIN entries :
            /\ toLowerCase(entries[i].k) = lower
            /\ \A j \in DOMAIN entries :
                 toLowerCase(entries[j].k) = lower => j <= i].v
CallHeaders == IF call.headers = Undefined THEN <<>> ELSE call.headers.entries

\* C12: normalizeHeaders(headers, false) is undefined for every header map;
\* normalizeHeaders(headers, true) is a mapping whose keys are the header
\* names lower-cased, each with its header's value, and is the empty
\* mapping when the header map is empty or absent.
C12_IncludeFlag ==
  NormalizedHeaders =>
    /\ call.include = Bool(FALSE) => ret.headers = Undefined
    /\ call.include = Bool(TRUE) =>
         /\ ret.headers.t = "obj"
         /\ OwnKeys(ret.headers.entries) =
              {toLowerCase(k) : k \in OwnKeys(CallHeaders)}
         /\ \A i, j \in DOMAIN ret.headers.entries :
              ret.headers.entries[i].k = ret.headers.entries[j].k => i = j
         /\ \A i \in DOMAIN ret.headers.entries :
              ret.headers.entries[i].v =
                LastValue(CallHeaders, ret.headers.entries[i].k)

\* include = true lower-cases the names of two headers
C12_Witness ==
  /\ NormalizedHeaders
  /\ call.include = Bool(TRUE)
  /\ call.headers = Obj(<<Entry(<<"A">>, Str(<<"x">>)),
                          Entry(<<"P">>, Str(<<"y">>))>>)
  /\ ret.headers = Obj(<<Entry(<<"a">>, Str(<<"x">>)),
                         Entry(<<"p">>, Str(<<"y">>))>>)

\* C13, as claimed: with an allow list the result holds exactly the headers
\* whose lower-cased name is the lower-cased form of an allow-list entry,
\* under the lower-cased name, and is undefined when there is none (no
\* match, an empty allow list, an absent header map).
C13_AllowListExact ==
  (NormalizedHeaders /\ call.include.t = "list") =>
    LET matched == {toLowerCase(k) : k \in OwnKeys(CallHeaders)}
                   \cap {toLowerCase(k) : k \in SeqToSet(call.include.keys)}
    IN IF matched = {} THEN ret.headers = Undefined
       ELSE /\ ret.headers.t = "obj"
            /\ OwnKeys(ret.headers.entries) = matched
            /\ \A i \in DOMAIN ret.headers.entries :
                 ret.headers.entries[i].v =
                   LastValue(CallHeaders, ret.headers.entries[i].k)

(***************************************************************************)
(* Properties of the logger proxy, checked under LoggerSpec.               *)
(***************************************************************************)
\* the last operation was a call of a name the target does not have
UnknownCall == last.op = "call" /\ last.got = "fallback"
\* the last operation touched a member the target has
KnownAccess == last.op \in {"get", "call"} /\ last.got # "fallback"
IsWarning(c) == c.to \in {"warn", "console.warn"} /\
                \E m \in MemberNames : c.args = <<Str(UnknownMethodText(m))>>
\* the calls of the last operation that are not unknown-method warnings
Routed == SelectSeq(last.calls, LAMBDA c : ~IsWarning(c))

\* C14: on each logger the unknown-method warnings emitted so far are as
\* many as the distinct unknown names called so far on that logger (a
\* first call warns, a repeated one does not), whatever was called on the
\* other logger.
C14_OneWarningPerName ==
  /\ \A l \in Loggers :
       /\ warnings[l] = Cardinality(unknownCalled[l])
       /\ warnedMethods[l] = unknownCalled[l]
  /\ UnknownCall =>
       Len(SelectSeq(last.calls, IsWarning)) <= 1

\* the same name called twice on one logger and once on the other: one
\* warning each, none from the repeated call
C14_Witness ==
  /\ warnings = [l \in Loggers |-> 1]
  /\ unknownCalled = [l \in Loggers |-> {"mystery"}]
  /\ UnknownCall
  /\ last.logger = "first"
  /\ last.prop = "mystery"
  /\ last.calls = <<SinkCall("info", <<Str(<<>>)>>)>>

CoercedText(value) ==
  IF value.t = "str" THEN value.s
  ELSE IF JSONstringify(value).ok /\ JSONstringify(value).def
  THEN JSONstringify(value).text
  ELSE IF value.t \in {"null", "undef"} THEN <<>>
  ELSE StringOf(value).text

\* C16, as claimed: a call of an unknown name on a logger whose info is no
\* function goes to log at level info, the first argument coerced to a
\* string and the others passed on; when log is no function either,
\* nothing is logged, the console gets a warning, and the call returns
\* undefined without throwing.
C16_FallbackWithoutInfo ==
  (UnknownCall /\ baseLogger[last.logger]["info"] # "function") =>
    LET infoArgs == IF last.args = <<>> THEN <<Str(<<>>)>> ELSE last.args
        text == CoercedText(Head(infoArgs))
    IN IF baseLogger[last.logger]["log"] = "function"
       THEN /\ ~last.threw
            /\ Routed =
                 <<SinkCall("log",
                            IF Len(infoArgs) > 1
                            THEN <<Str(InfoText), Str(text)>> \o Tail(infoArgs)
                            ELSE <<Obj(<<Entry(LevelKey, Str(InfoText)),
                                         Entry(MessageKey, Str(text))>>)>>)>>
       ELSE /\ ~last.threw
            /\ last.returned = "undefined"
            /\ Routed = <<SinkCall("console.warn",
                                   <<Str(FallbackUnavailableText)>>)>>

\* C17: getting or calling a member the underlying logger has hands back
\* that member (a function is called on the logger with the arguments of
\* the call); it emits no warning, leaves the warned names as they were,
\* and does not go through the info fallback.
C17_KnownPassesThrough ==
  /\ [](KnownAccess =>
          /\ last.got = baseLogger[last.logger][last.prop]
          /\ last.op = "call" =>
               last.calls = IF last.got = "function"
                            THEN <<SinkCall(last.prop, last.args)>>
                            ELSE <<>>)
  /\ [][(last'.op \in {"get", "call"} /\
         baseLogger[last'.logger][last'.prop] # "absent") =>
          UNCHANGED <<warnedMethods, warnings, unknownCalled>>]_vars

\* log called with metadata on a logger that has warned before
C17_Witness ==
  /\ KnownAccess
  /\ last.op = "call"
  /\ last.prop = "log"
  /\ last.calls = <<SinkCall("log", <<Str(<<"m">>), Meta>>)>>
  /\ warnedMethods[last.logger] = {"mystery"}

(***************************************************************************)
(* Properties of createLogger, checked under CreateSpec.                   *)
(***************************************************************************)
\* the configured zones as a list of texts: a single string is a list of one
ConfiguredZones ==
  LET zones == loggerOptions.extraTimezones
  IN IF zones = Undefined THEN <<>>
     ELSE IF zones.t = "str" THEN <<zones.s>>
     ELSE [i \in DOMAIN zones.items |-> zones.items[i].s]
\* the positions of the entries that are not blank and name no known zone
Offending ==
  {i \in DOMAIN ConfiguredZones :
     Trim(ConfiguredZones[i]) # <<>> /\ Trim(ConfiguredZones[i]) \notin KnownZones}
FirstPosition(S) == CHOOSE i \in S : \A j \in S : i <= j

\* C18: when a configured zone is unknown, createLogger throws
\* InvalidTimezoneError naming the first such zone, with no transport and
\* no logger constructed, and no record is ever written, whatever the
\* other options; otherwise it returns a logger.
C18_InvalidZoneThrowsFirst ==
  made # NotMade =>
    IF Offending # {}
    THEN /\ made.state = "threw"
         /\ made.error = [name |-> "InvalidTimezoneError",
                          zone |-> Trim(ConfiguredZones[FirstPosition(Offending)])]
         /\ made.transports = <<>>
         /\ rendered = <<>>
    ELSE made.state = "returned"

\* a known zone followed by an unknown one, console and file enabled
C18_Witness ==
  /\ made.state = "threw"
  /\ loggerOptions.extraTimezones = Arr(<<Str(London), Str(<<"Mars/Phobos">>)>>)
  /\ loggerOptions.includeConsole
  /\ loggerOptions.includeFile
  /\ made.error.zone = <<"Mars/Phobos">>
  /\ dirs = {LogDirectory}

\* how many times the piece occurs in the text
Occurrences(text, piece) == Cardinality({k \in DOMAIN text : text[k] = piece})

\* C19: the zone list of a logger is the configured list (a single string
\* being a list of one), each entry trimmed, blank entries dropped, an
\* entry that occurred before dropped, in the configured order; every
\* record rendered with timestamps has one line for each zone of the list;
\* the list and the label do not change once the logger is made.
C19_ZoneListBound ==
  /\ [](made.state = "returned" =>
          LET zones == made.ctx.timezones
              FirstAt(z) ==
                FirstPosition({k \in DOMAIN ConfiguredZones :
                                 Trim(ConfiguredZones[k]) = z})
          IN /\ SeqToSet(zones) =
                  {Trim(ConfiguredZones[k]) : k \in DOMAIN ConfiguredZones}
                  \ {<<>>}
             /\ \A i, j \in DOMAIN zones :
                  i < j => FirstAt(zones[i]) < FirstAt(zones[j])
             /\ \A r \in DOMAIN rendered :
                  \A t \in DOMAIN made.transports :
                    made.transports[t].timestamps =>
                      /\ rendered[r].outputs[t].ok
                      /\ \A i \in DOMAIN zones :
                           Occurrences(rendered[r].outputs[t].text,
                                       zones[i][1]) = 1)
  /\ [][made.state = "returned" =>
          made' = made /\ loggerOptions' = loggerOptions]_vars

\* " Europe/London " and "Europe/London" configured: one zone, two records
C19_Witness ==
  /\ made.state = "returned"
  /\ loggerOptions.extraTimezones =
       Arr(<<Str(<<Space>> \o London \o <<Space>>), Str(London)>>)
  /\ made.ctx.timezones = <<London>>
  /\ Len(rendered) = MaxRecords

(***************************************************************************)
(* Properties of formatMessage, checked under CallsSpec.                   *)
(***************************************************************************)
RenderedRecord == ret.fn = "formatMessage" /\ ret.out.ok
Line(text) == text \o <<NewLine>>
SeverityText ==
  LET level == OwnProperty(call.info, LevelKey)
  IN IF level = Undefined THEN <<"I", "N", "F", "O">>
     ELSE IF level.s = <<"w", "a", "r", "n">> THEN <<"W", "A", "R", "N">>
     ELSE <<"E", "R", "R", "O", "R">>
BlockText(value) ==
  IF value = Undefined THEN <<>>
  ELSE IF value.t = "str" THEN value.s
  ELSE JSONstringifyIndented(value, 0).text
ZoneLines ==
  LET zones == call.ctx.timezones
      upTo[i \in 0..Len(zones)] ==
        IF i = 0 THEN <<>>
        ELSE upTo[i - 1] \o Line(zones[i] \o <<":", Space, TIMESTAMP_FORMAT>>)
  IN upTo[Len(zones)]
OtherFields ==
  SelectSeq(call.info.entries,
            LAMBDA e : e.k \notin {LevelKey, MessageKey, StackKey})

\* C20: a rendered record is, in this order: with timestamps, the UTC line
\* and one line per zone in the list's order; the header "[SEVERITY]
\* (label)", the severity in upper case and INFO when the record has no
\* level; the message; the stack only if the record has one; the metadata
\* as JSON only if the record has fields other than level, message and
\* stack.  Without timestamps the header comes first.
C20_LinesInOrder ==
  RenderedRecord =>
    ret.out.text =
      (IF call.includeTimestamps
       THEN Line(<<"UTC:", Space, TIMESTAMP_FORMAT>>) \o ZoneLines
       ELSE <<>>)
      \o Line(<<"[">> \o SeverityText \o <<"]", Space, "(">>
              \o call.ctx.label \o <<")">>)
      \o Line(BlockText(OwnProperty(call.info, MessageKey)))
      \o (IF OwnProperty(call.info, StackKey) # Undefined
          THEN Line(BlockText(OwnProperty(call.info, StackKey))) ELSE <<>>)
      \o (IF OtherFields # <<>>
          THEN Line(BlockText(Obj(OtherFields))) ELSE <<>>)

\* a record without level, with a stack and two metadata fields, rendered
\* with timestamps for two zones
C20_Witness ==
  /\ RenderedRecord
  /\ call.includeTimestamps
  /\ call.ctx.timezones = <<Tokyo, London>>
  /\ OwnProperty(call.info, LevelKey) = Undefined
  /\ OwnProperty(call.info, StackKey) = Str(<<"E", NewLine, "at">>)
  /\ Len(OtherFields) = 2
  /\ SubSeq(ret.out.text, 1, 9) =
       <<"UTC:", Space, TIMESTAMP_FORMAT, NewLine,
         "Asia/Tokyo", ":", Space, TIMESTAMP_FORMAT, NewLine>>

\* the number of line terminators the text ends with
RECURSIVE TrailingTerminators(_)
TrailingTerminators(text) ==
  IF text # <<>> /\ text[Len(text)] = NewLine
  THEN 1 + TrailingTerminators(SubSeq(text, 1, Len(text) - 1))
  ELSE 0

\* C21: every rendered record, whatever its message, stack and metadata,
\* also when the text of the message or of the stack ends with a line
\* terminator, ends with exactly one line terminator.
C21_OneTrailingTerminator ==
  RenderedRecord => TrailingTerminators(ret.out.text) = 1

(***************************************************************************)
(* Properties of the entry of one request, checked under EntrySpec.        *)
(***************************************************************************)
\* the custom rule applied to the environment: the variable's value is in
\* the allow list whatever its case; the fallback when it is not set
GateAllows ==
  LET value == env[CustomMode.sources[1]]
  IN IF value = Undefined THEN CustomMode.fallback
     ELSE \E i \in DOMAIN CustomMode.allow :
            toLowerCase(value.s) = toLowerCase(CustomMode.allow[i])

\* C22: under the custom rule (sources DEPLOYMENT_STAGE, allow staging and
\* qa, fallback false) a request that was signalled has an entry if and
\* only if the variable's value is an allowed one, compared without case;
\* when the variable is not set, none.
C22_EnvironmentGate ==
  \A r \in Requests :
    options.loggingMode = CustomMode /\ Observed(r) /\ Signalled(r) =>
      (logCalls[r] # <<>> <=> GateAllows)

\* C23: the sink call carries the entry under http exactly when
\* includeHttpContext is true; with the default it carries the level and
\* the message only.
C23_HttpOnlyWhenEnabled ==
  \A r \in Requests : \A i \in DOMAIN logCalls[r] :
    /\ {"level", "message"} \subseteq DOMAIN logCalls[r][i]
    /\ "http" \in DOMAIN logCalls[r][i] <=> options.includeHttpContext

\* C24: finalize does not fail on a request without method, without
\* originalUrl and url, or on a response without status code: the entry has
\* method "GET", url "" and status code 0, and the level is the one of
\* status 0; fields that are there are taken as they are, originalUrl
\* before url.
C24_MissingFieldsDefaulted ==
  \A r \in Requests :
    Observed(r) /\ Signalled(r) =>
      /\ thrown[r] = <<>>
      /\ Len(logCalls[r]) = 1
      /\ LET entry == logCalls[r][1].http
         IN /\ entry.method = IF request[r].method = Undefined
                              THEN Str(<<"G", "E", "T">>)
                              ELSE request[r].method
            /\ entry.url = IF request[r].originalUrl # Undefined
                           THEN request[r].originalUrl
                           ELSE IF request[r].url # Undefined
                           THEN request[r].url
                           ELSE Str(<<>>)
            /\ entry.statusCode = IF statusCode[r] = Undefined THEN 0
                                  ELSE statusCode[r].n
            /\ statusCode[r] = Undefined /\ options.level = "none" =>
                 logCalls[r][1].level = "info"

\* no method, no originalUrl, no url, no status code: GET, "", 0, info
C24_Witness ==
  /\ request[1].method = Undefined
  /\ request[1].originalUrl = Undefined
  /\ request[1].url = Undefined
  /\ statusCode[1] = Undefined
  /\ Len(logCalls[1]) = 1
  /\ logCalls[1][1].http.method = Str(<<"G", "E", "T">>)
  /\ logCalls[1][1].http.url = Str(<<>>)
  /\ logCalls[1][1].http.statusCode = 0
  /\ logCalls[1][1].level = "info"

\* the finite number a content-length header converts to, if any
HeaderNumber(v) ==
  CASE v = Num(7) -> Num(7)
    [] v = Str(<<>>) -> Num(0)
    [] v = Str(<<"1", "2">>) -> Num(12)
    [] v = Str(<<"1", "2", "8">>) -> Num(128)
    [] OTHER -> Undefined

\* C25: the entry's contentLength is the number of the response's
\* content-length header at finalize when that is a finite number, else the
\* number of the request's content-length header as the middleware read it
\* when it attached, else absent; a later change of the request's header
\* changes nothing.
C25_ContentLengthSource ==
  /\ [](\A r \in Requests : \A i \in DOMAIN logCalls[r] :
          logCalls[r][i].http.contentLength =
            IF HeaderNumber(resContentLength[r]) # Undefined
            THEN HeaderNumber(resContentLength[r])
            ELSE initialContentLength[r])
  /\ [][\A r \in Requests :
          /\ phase[r] = "new" /\ phase'[r] = "observed" =>
               initialContentLength'[r] =
                 HeaderNumber(request[r].contentLength)
          /\ phase[r] = "observed" =>
               initialContentLength'[r] = initialContentLength[r]]_vars

\* the request said 128 when the middleware attached and 12 afterwards,
\* the response's header is no number: 128
C25_Witness ==
  /\ initialContentLength[1] = Num(128)
  /\ request[1].contentLength = Str(<<"1", "2">>)
  /\ resContentLength[1] = Str(<<"a", "b">>)
  /\ Len(logCalls[1]) = 1
  /\ logCalls[1][1].http.contentLength = Num(128)

(***************************************************************************)
(* Properties of the order of the steps, checked under Spec.               *)
(***************************************************************************)
\* the steps of finalize the request has taken, in the order it took them
FinalizeOrder ==
  <<"status", "level", "entry", "serializeBody", "enrich", "messageBuilder",
    "log">>
Rank(step) == CHOOSE i \in DOMAIN FinalizeOrder : FinalizeOrder[i] = step
FinalizeSteps(r) ==
  SelectSeq(steps[r], LAMBDA x : x \in SeqToSet(FinalizeOrder))

\* C26: the steps of one finalize are taken in one order, each at most
\* once: status and level, the entry, enrich if configured, the message
\* builder, the sink; enrich's result is the entry's context, the message
\* builder gets the entry with that context, the sink gets the level, that
\* message and that entry, once; after the sink call nothing more happens
\* to the request's entry.
C26_FinalizeOrder ==
  /\ [](\A r \in Requests :
          LET fs == FinalizeSteps(r)
          IN /\ \A i, j \in DOMAIN fs : i < j => Rank(fs[i]) < Rank(fs[j])
             /\ \A i \in DOMAIN fs : \A k \in 1..(Rank(fs[i]) - 1) :
                  FinalizeOrder[k] \in SeqToSet(fs)
                  \/ (FinalizeOrder[k] = "enrich" /\ options.enrich = "none")
                  \/ (FinalizeOrder[k] = "serializeBody"
                      /\ ~options.includeRequestBody)
             /\ "enrich" \in SeqToSet(fs) => options.enrich # "none"
             /\ Signalled(r) /\ Observed(r) /\ thrown[r] = <<>> =>
                  "log" \in SeqToSet(fs)
             /\ Len(logCalls[r]) = (IF "log" \in SeqToSet(fs) THEN 1 ELSE 0)
             /\ \A i \in DOMAIN logCalls[r] :
                  LET sent == logCalls[r][i]
                  IN /\ sent.level =
                          (IF options.level = "fn"
                           THEN LevelFn(sent.http.statusCode)
                           ELSE IF options.level = "fixed" THEN FixedLevel
                           ELSE determineLevel(sent.http.statusCode))
                     /\ sent.message.entry = sent.http
                     /\ sent.http.context =
                          (IF options.enrich = "returns" THEN EnrichContext
                           ELSE Undefined))
  /\ [][\A r \in Requests :
          logCalls[r] # <<>> =>
            (logCalls'[r] = logCalls[r] /\ steps'[r] = steps[r])]_vars

\* enrich returned a context and every step was taken, in the code's order
C26_Witness ==
  /\ options.enrich = "returns"
  /\ FinalizeSteps(1) =
       <<"status", "level", "entry", "enrich", "messageBuilder", "log">>
  /\ Len(logCalls[1]) = 1
  /\ logCalls[1][1].http.context = EnrichContext
  /\ logCalls[1][1].message.entry.context = EnrichContext
  /\ signals[1].late

\* the positions of a step among the request's steps
Positions(r, step) == {i \in DOMAIN steps[r] : steps[r][i] = step}

\* C27: for an observed request next is called exactly once, in the
\* middleware call, after both listeners are registered and before any
\* sink call; the middleware call emits nothing, and what the sink does
\* later does not change that next was called.
C27_NextOnceAfterListeners ==
  \A r \in Requests :
    Observed(r) =>
      /\ nextCalls[r] = 1
      /\ Cardinality(Positions(r, "next")) = 1
      /\ Cardinality(Positions(r, "once")) = 2
      /\ \A n \in Positions(r, "next") :
           /\ \A o \in Positions(r, "once") : o < n
           /\ \A l \in Positions(r, "log") : n < l
      /\ ~Signalled(r) => (logCalls[r] = <<>> /\ FinalizeSteps(r) = <<>>)

\* the sink threw for the first request; next had been called once for it,
\* and is called for the second request as well
C27_Witness ==
  /\ Observed(1)
  /\ thrown[1] = <<"log">>
  /\ nextCalls[1] = 1
  /\ Observed(2)
  /\ nextCalls[2] = 1
  /\ steps[2] = <<"hrtime", "once", "once", "next">>

\* C30: finalize sets the latch and removes both listeners before it does
\* anything for the entry; when the level function, enrich, the message
\* builder or the sink throws, the request stays finalized, a later signal
\* runs nothing, and no entry is emitted then or later (the sink call that
\* threw is not repeated).
C30_NoRetryAfterThrow ==
  /\ [](\A r \in Requests :
          /\ \A i \in Positions(r, "status") :
               /\ \E h \in Positions(r, "handled") : h < i
               /\ \E h \in Positions(r, "removeListener") : h < i
          /\ thrown[r] # <<>> =>
               /\ handled[r]
               /\ listeners[r] = {}
               /\ Len(thrown[r]) = 1
               /\ Cardinality(Positions(r, "handled")) = 1
               /\ thrown[r] # <<"log">> => logCalls[r] = <<>>
               /\ Len(logCalls[r]) <= 1)
  /\ [][\A r \in Requests :
          thrown[r] # <<>> =>
            /\ handled'[r]
            /\ thrown'[r] = thrown[r]
            /\ logCalls'[r] = logCalls[r]
            /\ levelCalls'[r] = levelCalls[r]
            /\ steps'[r] = steps[r]]_vars

\* enrich threw at the first signal, and the second signal came
C30_Witness ==
  /\ thrown[1] = <<"enrich">>
  /\ signals[1].late
  /\ handled[1]
  /\ logCalls[1] = <<>>
  /\ steps[1] = <<"hrtime", "once", "once", "next", "handled",
                  "removeListener", "status", "level", "entry", "enrich">>

(***************************************************************************)
(* Properties of the set of visited composites.                            *)
(***************************************************************************)
\* the first sample body, redacted in full
FullSample ==
  Obj(<<Entry(<<"a">>, Str(<<"s">>)), Entry(<<"P">>, Str(RedactedText))>>)

\* C28: the visited set belongs to one serializeBody call: when two
\* requests carry the same body object, each entry has its full redacted
\* value, whichever was finalized first, and none has "[Circular]" for it.
C28_VisitedSetPerCall ==
  \A r \in Requests : \A i \in DOMAIN logCalls[r] :
    options.includeRequestBody =>
      /\ logCalls[r][i].http.requestBody # Str(CircularText)
      /\ reqBody[r] = Ref(1) => logCalls[r][i].http.requestBody = FullSample
      /\ \A q \in Requests : \A j \in DOMAIN logCalls[q] :
           reqBody[q] = reqBody[r] =>
             logCalls[q][j].http.requestBody = logCalls[r][i].http.requestBody

\* two requests with the same body object, both finalized
C28_Witness ==
  /\ options.includeRequestBody
  /\ reqBody[1] = Ref(1) /\ reqBody[2] = Ref(1)
  /\ Len(logCalls[1]) = 1 /\ Len(logCalls[2]) = 1
  /\ logCalls[1][1].http.requestBody = FullSample
  /\ logCalls[2][1].http.requestBody = FullSample

\* The occurrences of composites in the walk of `v` that `out` records, in
\* the order of the walk: each with its composite and whether `out` has it
\* in full or as "[Circular]".  A masked entry is not walked.
RECURSIVE WalkOccurrences(_, _, _)
RECURSIVE OccurrencesIn(_, _, _, _)
OccurrencesIn(slots, outs, mask, i) ==
  IF i > Len(slots) THEN <<>>
  ELSE (IF slots[i].masked THEN <<>>
        ELSE WalkOccurrences(slots[i].v, outs[i], mask))
       \o OccurrencesIn(slots, outs, mask, i + 1)
WalkOccurrences(v, out, mask) ==
  IF v.t # "ref" THEN <<>>
  ELSE IF out = Str(CircularText) THEN <<[id |-> v.id, full |-> FALSE]>>
  ELSE LET o == heap[v.id]
       IN <<[id |-> v.id, full |-> TRUE]>>
          \o (IF o.t = "arr"
              THEN OccurrencesIn([i \in DOMAIN o.items |->
                                    [v |-> o.items[i], masked |-> FALSE]],
                                 out.items, mask, 1)
              ELSE OccurrencesIn([i \in DOMAIN o.entries |->
                                    [v |-> o.entries[i].v,
                                     masked |->
                                       toLowerCase(o.entries[i].k) \in mask]],
                                 [i \in DOMAIN out.entries |->
                                    out.entries[i].v],
                                 mask, 1))

\* C29: in one call, of the occurrences of a composite that the walk meets
\* (a masked entry is not walked), the first in the order of the walk is
\* redacted in full and every later one is "[Circular]", whether or not the
\* composite is its own ancestor there.
C29_LaterOccurrencesCut ==
  ret.fn = "redactValue" =>
    /\ Redacted(call.value, ret.masked.out, call.maskSet)
    /\ LET occ == WalkOccurrences(call.value, ret.masked.out, call.maskSet)
       IN \A k \in DOMAIN occ :
            occ[k].full <=> (\A j \in 1..(k - 1) : occ[j].id # occ[k].id)

\* two sibling positions hold the same array: the first in full, the
\* second "[Circular]"
C29_Witness ==
  /\ ret.fn = "redactValue"
  /\ heap = <<Arr(<<Ref(2), Ref(2)>>), Arr(<<LeafText>>)>>
  /\ ret.masked.out = Arr(<<Arr(<<LeafText>>), Str(CircularText)>>)

====
